---- MODULE Spec2Model ----
(***************************************************************************)
(* Verification model of goki/gi: the SplitView split-geometry engine and  *)
(* the text engine: word-wrap position search, span splitting and layout,  *)
(* the two HTML parsers (token by token) and rune positioning.             *)
(*                                                                         *)
(* Arithmetic.  The proportions of a SplitView are float32 in the source.  *)
(* They are modelled as exact rationals <<n, d>> in lowest terms: every    *)
(* float32 +, -, *, / of the source becomes the exact operation, so the    *)
(* model is the algorithm without float32 round-off.  Text positions are   *)
(* float32 as well and are modelled as integers (dots).                    *)
(***************************************************************************)
EXTENDS Integers, Sequences, FiniteSets, TLC

VARIABLES
    Splits,         \* SplitView.Splits
    SavedSplits,    \* SplitView.SavedSplits, <<>> for nil
    last,           \* the last SplitView call: name, arguments, Splits before it
    nops,           \* the number of SplitView calls made
    sr,             \* a SpanRender: Text, Render, RelPos, LastPos
    sty,            \* the text style in force: spacing, indent, tab size
    tpc,            \* where the span is: "idle", "new", "positioned", "wrapped"
    wrap,           \* the last FindWrapPosLR call: trgSize, curSize, result
    tr,             \* a TextRender: Spans and Links
    ps,             \* the locals of the HTML parser: curLinkIdx, nextIsParaStart, fstack
    inp,            \* the parser mode and the tokens read so far
    hist,           \* what was delivered while each link was open, and its close
    hpc,            \* where the text is: "idle", "parsing", "parsed", "ready", "laid", ...
    lay,            \* the layout calls made: width, text before, spans split
    fault,          \* did the last text-engine call index a slice out of range
    bnds,           \* the rectangle the last TextLink.Bounds call returned
    mu,             \* TextFontRenderMu: the goroutine that holds it, 0 for none
    gs,             \* per goroutine: the call it is in, the steps left, a font query in progress
    rin,            \* the runes a decoration pass reads: BgColor, decorated, within bounds, printable
    draw,           \* the decoration pass made and the calls it made on the Paint, in order
    km,             \* a KeyMap: the function of every chord it has
    kmPre,          \* the map before the last Update, in a sequence; <<>> before any
    ActiveKeyMap    \* the map ActiveKeyMap points to, in a sequence; <<>> for nil

svars == <<Splits, SavedSplits, last, nops>>
tvars == <<sr, sty, tpc, wrap>>
hvars == <<tr, ps, inp, hist, hpc, lay>>
kvars == <<km, kmPre, ActiveKeyMap>>
xvars == <<fault, bnds, mu, gs, rin, draw, kvars>>

\* the variables of xvars where no call of theirs was made
\* the goroutines that use the text engine
Goroutines == {1, 2}

\* no key map made
KIdle ==
    /\ km = <<>>
    /\ kmPre = <<>>
    /\ ActiveKeyMap = <<>>

XIdle ==
    /\ fault = FALSE
    /\ bnds = <<>>
    /\ mu = 0
    /\ gs = [g \in Goroutines |-> [op |-> "none", steps |-> <<>>, inq |-> FALSE]]
    /\ rin = <<>>
    /\ draw = [fn |-> "none", calls |-> <<>>]
    /\ KIdle

vars == <<Splits, SavedSplits, last, nops, sr, sty, tpc, wrap, tr, ps, inp, hist, hpc, lay,
          fault, bnds, mu, gs, rin, draw, km, kmPre, ActiveKeyMap>>

---------------------------------------------------------------------------
(* float32 arithmetic of the SplitView code, as exact rationals *)

Abs(x) == IF x < 0 THEN -x ELSE x

RECURSIVE GCD(_, _)
GCD(a, b) == IF b = 0 THEN a ELSE GCD(b, a % b)

\* the rational n/d (d # 0) in lowest terms with a positive denominator
Rat(n, d) ==
    LET g == GCD(Abs(n), Abs(d))
        s == IF d < 0 THEN -1 ELSE 1
    IN  <<(s * n) \div g, (s * d) \div g>>

Zero == Rat(0, 1)
One == Rat(1, 1)

\* the operations reduce before they multiply, to keep the integers small
RAdd(a, b) ==
    LET g == GCD(a[2], b[2])
    IN  Rat(a[1] * (b[2] \div g) + b[1] * (a[2] \div g), (a[2] \div g) * b[2])
RNeg(a) == <<-a[1], a[2]>>
RSub(a, b) == RAdd(a, RNeg(b))
RMul(a, b) ==
    LET g1 == GCD(Abs(a[1]), b[2])
        g2 == GCD(Abs(b[1]), a[2])
    IN  Rat((a[1] \div g1) * (b[1] \div g2), (a[2] \div g2) * (b[2] \div g1))
RDiv(a, b) == RMul(a, Rat(b[2], b[1]))
RLt(a, b) == RSub(a, b)[1] < 0
RLe(a, b) == RSub(a, b)[1] <= 0

\* s[1] + ... + s[n], accumulated left to right as the source's loops do
RECURSIVE SumTo(_, _)
SumTo(s, n) == IF n = 0 THEN Zero ELSE RAdd(SumTo(s, n - 1), s[n])

---------------------------------------------------------------------------
(* SplitView *)

\* len(g.Kids): the children of the view
NKids == 3

MinInt(a, b) == IF a < b THEN a ELSE b

\* UpdateSplits: same length as the number of children, and normalized
UpdateSplitsEven(sz) == [i \in 1..sz |-> RDiv(One, Rat(sz, 1))]

\* normalisation left out
UpdateSplitsNormOff(sp, sum) == sp

UpdateSplitsNorm(sp, sum) ==
    LET norm == RDiv(One, sum)
    IN  [i \in 1..Len(sp) |-> RMul(sp[i], norm)]

UpdateSplits(splits, sz) ==
    IF sz = 0 THEN splits
    ELSE LET sp == IF Len(splits) # sz THEN [i \in 1..sz |-> Zero] ELSE splits
             sum == SumTo(sp, sz)
         IN  IF sum = Zero THEN UpdateSplitsEven(sz)
             ELSE UpdateSplitsNorm(sp, sum)

\* SetSplits(splits...): copy the first min(sz, len) values, then normalize
SetSplitsFn(cur, sz, splits) ==
    LET s1 == UpdateSplits(cur, sz)
        mx == MinInt(sz, Len(splits))
        s2 == [i \in 1..Len(s1) |-> IF i <= mx THEN splits[i] ELSE s1[i]]
    IN  UpdateSplits(s2, sz)

\* nothing saved
SaveSplitsNone(cur, saved) == saved

\* SaveSplits: SavedSplits becomes a copy of Splits (<<>> models nil)
SaveSplitsFn(cur, saved) == IF Len(cur) = 0 THEN saved ELSE cur

\* RestoreSplits: nothing when no splits were saved, else SetSplits(saved...)
RestoreSplitsFn(cur, sz, saved) ==
    IF saved = <<>> THEN cur ELSE SetSplitsFn(cur, sz, saved)

\* only the first idx given is collapsed
CollapseZeroFirst(cur, sz, idxs) ==
    [i \in 1..Len(cur) |-> IF idxs[1] = i - 1 THEN Zero ELSE cur[i]]

\* the loop of CollapseChild: every in-range idx (0-based) gets 0
CollapseZero(cur, sz, idxs) ==
    [i \in 1..Len(cur) |->
        IF \E k \in 1..Len(idxs) : idxs[k] = i - 1 /\ idxs[k] >= 0 /\ idxs[k] < sz
        THEN Zero ELSE cur[i]]

CollapseChildFn(cur, sz, idxs) == UpdateSplits(CollapseZero(cur, sz, idxs), sz)

\* no clamp of a negative region
SetSplitsActionNoClamp(oldval, oldsum, nwval) ==
    [uval |-> RAdd(oldval, RSub(nwval, oldsum)), nwval |-> nwval]

\* SetSplitsAction(idx, nwval), idx 0-based: the clamp of region idx at 0,
\* which moves the target nwval back to the sum of regions 0..idx-1
SetSplitsActionClamp(oldval, oldsum, nwval) ==
    LET delta == RSub(nwval, oldsum)
        uval == RAdd(oldval, delta)
    IN  IF RLt(uval, Zero)
        THEN [uval |-> Zero, nwval |-> RAdd(oldsum, RNeg(oldval))]
        ELSE [uval |-> uval, nwval |-> nwval]

\* the remainder always in equal shares
SetSplitsActionRestEven(cur, idx, rmdr, oldrmdr) ==
    [i \in 1..Len(cur) |->
        IF i - 1 <= idx THEN cur[i] ELSE RDiv(rmdr, Rat((Len(cur) - 1) - idx, 1))]

\* the old remainder not divided out
SetSplitsActionRestScaled(cur, idx, rmdr, oldrmdr) ==
    [i \in 1..Len(cur) |-> IF i - 1 <= idx THEN cur[i] ELSE RMul(rmdr, cur[i])]

\* SetSplitsAction: the new values of regions idx+1..N-1
SetSplitsActionRest(cur, idx, rmdr, oldrmdr) ==
    LET sz == Len(cur)
    IN  [i \in 1..sz |->
            IF i - 1 <= idx THEN cur[i]
            ELSE IF RLe(oldrmdr, Zero)
                 THEN IF RLt(Zero, rmdr)
                      THEN RDiv(rmdr, Rat((sz - 1) - idx, 1))
                      ELSE cur[i]
                 ELSE RMul(rmdr, RDiv(cur[i], oldrmdr))]

SetSplitsActionFn(cur, sz, idx, nwval0) ==
    LET oldsum == SumTo(cur, idx + 1)
        cl == SetSplitsActionClamp(cur[idx + 1], oldsum, nwval0)
        rmdr == RSub(One, cl.nwval)
        rest == IF idx < Len(cur) - 1
                THEN SetSplitsActionRest(cur, idx, rmdr, RSub(One, oldsum))
                ELSE cur
        s2 == [rest EXCEPT ![idx + 1] = cl.uval]
    IN  UpdateSplits(s2, sz)

\* Layout2D reads back the value of splitter i: the sum of Splits[0..i]
SplitterValue(splits, i) == SumTo(splits, i + 1)

---------------------------------------------------------------------------
(* text: runes, font faces and their metrics *)

Tab == "\t"
Runes == {"a", "b", " ", Tab}

\* unicode.IsSpace on the runes of the model
IsSpace(r) == r \in {" ", Tab, "\n"}

\* font.Face values; "nil" is the nil face and the nil colour
Faces == {"regular", "bold"}

\* curFace.Metrics().Height and .Ascent, in dots
FaceHeight(face) == 20
FaceAscent(face) == 20

\* curFace.GlyphAdvance(r), in dots: a tab has no advance of its own
GlyphAdvance(face, r) ==
    IF r = Tab THEN 0
    ELSE IF r = " " THEN 2
    ELSE IF r = "a" THEN (IF face = "bold" THEN 3 ELSE 2)
    ELSE (IF face = "bold" THEN 4 ELSE 3)

\* curFace.Kern(prevR, r), in dots: the pair "ab" is kerned
Kern(face, prevR, r) == IF prevR = "a" /\ r = "b" THEN -1 ELSE 0

\* math32.Ceil(a / b) for a >= 0, b > 0
CeilDiv(a, b) == (a + b - 1) \div b

\* RuneRender.HasNil = nil
RuneHasFont(rr) == rr.Face # "nil" /\ rr.Color # "nil"

\* SpanRender.IsValid() = nil
IsValid(s) ==
    /\ Len(s.Text) # 0
    /\ Len(s.Text) = Len(s.Render)
    /\ RuneHasFont(s.Render[1])

CurFace(rr, curFace) == IF rr.Face # "nil" THEN rr.Face ELSE curFace

RelPosAfterLR(rr) == rr.RelPos.X + rr.Size.X

\* SizeHV().X: |Render[0].RelPos.X - LastPos.X|, 0 for a span that is not valid
SizeHVX(s) == IF ~IsValid(s) THEN 0 ELSE Abs(s.Render[1].RelPos.X - s.LastPos.X)

IsNewPara(s) == Len(s.Render) # 0 /\ "ParaStart" \in s.Render[1].Deco

\* the tab stop after fpos: the next multiple of tabSize columns of chsz dots
TabStop(fpos, chsz, tabSize) ==
    LET col == CeilDiv(fpos, chsz)
        curtab == (col \div tabSize) + 1
        cpos == chsz * (curtab * tabSize)
    IN  IF cpos > fpos THEN cpos ELSE fpos

\* the Y offset of a rune: superscript, then subscript
DecoShiftY(deco, ascent) ==
    IF "Sub" \in deco THEN (15 * ascent) \div 100
    ELSE IF "Super" \in deco THEN -((45 * ascent) \div 100)
    ELSE 0

\* one pass of the loop of SetRunePosLR, for rune i (1-based) of s
SetRunePosLRRune(s, i, fpos0, prevR, curFace0, p) ==
    LET r == s.Text[i]
        rr == s.Render[i]
        curFace == CurFace(rr, curFace0)
        fht == FaceHeight(curFace)
        fpos == IF prevR # "none" THEN fpos0 + Kern(curFace, prevR, r) ELSE fpos0
        a == GlyphAdvance(curFace, r)
        a32 == IF a = 0 THEN fht \div 10 ELSE a
        after == IF r = Tab THEN TabStop(fpos, p.chsz, p.tabSize)
                 ELSE fpos + a32
                      + (IF i < Len(s.Text)
                         THEN p.lspc + (IF IsSpace(r) THEN p.wspc ELSE 0)
                         ELSE 0)
    IN  [rr |-> [rr EXCEPT !.RelPos = [X |-> fpos, Y |-> DecoShiftY(rr.Deco, FaceAscent(curFace))],
                           !.Size = [X |-> a32, Y |-> fht]],
         fpos |-> after, face |-> curFace]

\* the loop of SetRunePosLR over runes i..len: the Render slice and the final fpos
RECURSIVE SetRunePosLRLoop(_, _, _, _, _, _)
SetRunePosLRLoop(s, i, fpos, prevR, curFace, p) ==
    IF i > Len(s.Text) THEN [Render |-> s.Render, fpos |-> fpos]
    ELSE LET one == SetRunePosLRRune(s, i, fpos, prevR, curFace, p)
         IN  SetRunePosLRLoop([s EXCEPT !.Render[i] = one.rr], i + 1, one.fpos,
                              s.Text[i], one.face, p)

SetRunePosLRFn(s, letterSpace, wordSpace, chsz, tabSize) ==
    IF ~IsValid(s) THEN s
    ELSE LET p == [lspc |-> letterSpace, wspc |-> wordSpace, chsz |-> chsz,
                   tabSize |-> IF tabSize = 0 THEN 4 ELSE tabSize]
             done == SetRunePosLRLoop(s, 1, 0, "none", s.Render[1].Face, p)
         IN  [s EXCEPT !.Render = done.Render, !.LastPos = [X |-> done.fpos, Y |-> 0]]

\* a RuneRender as AppendString makes it: no position or size yet
NewRune(face, clr, deco) ==
    [Face |-> face, Color |-> clr, Deco |-> deco,
     RelPos |-> [X |-> 0, Y |-> 0], Size |-> [X |-> 0, Y |-> 0]]

\* SpanRender.Init: no text
EmptySpan ==
    [Text |-> <<>>, Render |-> <<>>, RelPos |-> [X |-> 0, Y |-> 0],
     LastPos |-> [X |-> 0, Y |-> 0]]

\* AppendString: face and colour on the first rune only, nil on the rest
AppendString(s, str, face, clr, deco) ==
    IF Len(str) = 0 THEN s
    ELSE [s EXCEPT !.Text = s.Text \o str,
                   !.Render = s.Render \o
                       [i \in 1..Len(str) |->
                           IF i = 1 THEN NewRune(face, clr, deco)
                           ELSE NewRune("nil", "nil", deco)]]

\* SetNewPara
SetNewPara(s) ==
    IF Len(s.Render) > 0
    THEN [s EXCEPT !.Render[1].Deco = s.Render[1].Deco \cup {"ParaStart"}]
    ELSE s

\* LayoutStdLR on one span, up to the measure of its width: rune positions
\* when not set yet, then the indent of a new paragraph
LayoutPosition(s, st) ==
    LET s1 == IF IsValid(s) /\ s.LastPos.X = 0
              THEN SetRunePosLRFn(s, st.LetterSpacing, st.WordSpacing, st.Ch, st.TabSize)
              ELSE s
    IN  IF ~IsValid(s) THEN s
        ELSE [s1 EXCEPT !.RelPos.X = IF IsNewPara(s1) THEN st.Indent ELSE 0]

\* ssz.X of LayoutStdLR: SizeHV().X plus the indent
LayoutWidth(s) == SizeHVX(s) + s.RelPos.X

---------------------------------------------------------------------------
(* FindWrapPosLR; indexes are 0-based as in the source, Text[idx + 1] is the *)
(* rune at idx                                                              *)

\* the first estimate: int(float32(sz) * (trgSize / curSize)), at most sz-1
WrapEstimate(sz, trgSize, curSize) ==
    LET idx == (sz * trgSize) \div curSize
    IN  IF idx >= sz THEN sz - 1 ELSE idx

\* for idx > 0 { if end of rune idx <= trgSize { break }; idx-- }
RECURSIVE WrapDown(_, _, _)
WrapDown(s, idx, trgSize) ==
    IF idx > 0 /\ s.RelPos.X + RelPosAfterLR(s.Render[idx + 1]) > trgSize
    THEN WrapDown(s, idx - 1, trgSize)
    ELSE idx

\* for idx < sz-1 { if end of rune idx+1 > trgSize { break }; idx++ }
RECURSIVE WrapUp(_, _, _)
WrapUp(s, idx, trgSize) ==
    IF idx < Len(s.Text) - 1 /\ s.RelPos.X + RelPosAfterLR(s.Render[idx + 2]) <= trgSize
    THEN WrapUp(s, idx + 1, trgSize)
    ELSE idx

\* the whitespace run not skipped
SkipSpaceOff(text, idx) == idx

\* for idx < sz && unicode.IsSpace(Text[idx]) { idx++ }
RECURSIVE SkipSpace(_, _)
SkipSpace(text, idx) ==
    IF idx < Len(text) /\ IsSpace(text[idx + 1]) THEN SkipSpace(text, idx + 1) ELSE idx

\* the break left inside the word
WordStartOff(text, idx) == idx

\* for idx > 0 && !unicode.IsSpace(Text[idx-1]) { idx-- }
RECURSIVE WordStart(_, _)
WordStart(text, idx) ==
    IF idx > 0 /\ ~IsSpace(text[idx]) THEN WordStart(text, idx - 1) ELSE idx

\* for idx < sz && !unicode.IsSpace(Text[idx]) { idx++ }
RECURSIVE WordEnd(_, _)
WordEnd(text, idx) ==
    IF idx < Len(text) /\ ~IsSpace(text[idx + 1]) THEN WordEnd(text, idx + 1) ELSE idx

\* the result when no space lies at or before the rune that fits: the break
\* after the next whitespace run, -1 when that space is the last rune
WrapForward(text, idx0) ==
    LET idx == WordEnd(text, idx0)
    IN  IF idx = Len(text) - 1 THEN -1 ELSE SkipSpace(text, idx + 1)

FindWrapPosLRFn(s, trgSize, curSize) ==
    LET sz == Len(s.Text)
    IN  IF sz = 0 THEN -1
        ELSE LET est == WrapEstimate(sz, trgSize, curSize)
                 csz == s.RelPos.X + RelPosAfterLR(s.Render[est + 1])
                 idx == IF csz > trgSize THEN WrapDown(s, est, trgSize)
                        ELSE WrapUp(s, est, trgSize)
             IN  IF IsSpace(s.Text[idx + 1]) THEN SkipSpace(s.Text, idx + 1)
                 ELSE LET back == WordStart(s.Text, idx)
                      IN  IF back > 0 THEN back ELSE WrapForward(s.Text, back)

---------------------------------------------------------------------------
(* SetRunePosTB and SetRunePosTBRot *)

\* the tab stop of the vertical modes: the next multiple of tabSize columns
\* after column col, and the position fpos moved to it when it lies ahead
TabStopCol(fpos, col, chsz, tabSize) ==
    LET ncol == ((col \div tabSize) + 1) * tabSize
        cpos == chsz * ncol
    IN  [col |-> ncol, fpos |-> IF cpos > fpos THEN cpos ELSE fpos]

\* fpos after a rune that is not a tab: the extent of the rune, then letter
\* and word spacing unless it is the last rune
AfterRune(s, i, fpos, extent, p) ==
    fpos + extent + (IF i < Len(s.Text)
                     THEN p.lspc + (IF IsSpace(s.Text[i]) THEN p.wspc ELSE 0)
                     ELSE 0)

\* one pass of the loop of SetRunePosTB, for rune i (1-based) of s: the
\* superscript and subscript offsets are stored in RelPos.Y, over fpos
SetRunePosTBRune(s, i, fpos, col, curFace0, p) ==
    LET r == s.Text[i]
        rr == s.Render[i]
        curFace == CurFace(rr, curFace0)
        fht == FaceHeight(curFace)
        a == GlyphAdvance(curFace, r)
        a32 == IF a = 0 THEN fht \div 10 ELSE a
        y == IF "Sub" \in rr.Deco \/ "Super" \in rr.Deco
             THEN DecoShiftY(rr.Deco, FaceAscent(curFace))
             ELSE fpos
        tab == TabStopCol(fpos, col, p.chsz, p.tabSize)
    IN  [rr |-> [rr EXCEPT !.RelPos = [X |-> 0, Y |-> y], !.Size = [X |-> a32, Y |-> fht]],
         fpos |-> IF r = Tab THEN tab.fpos ELSE AfterRune(s, i, fpos, fht, p),
         col |-> IF r = Tab THEN tab.col ELSE col + 1,
         face |-> curFace]

RECURSIVE SetRunePosTBLoop(_, _, _, _, _, _)
SetRunePosTBLoop(s, i, fpos, col, curFace, p) ==
    IF i > Len(s.Text) THEN [Render |-> s.Render, fpos |-> fpos]
    ELSE LET one == SetRunePosTBRune(s, i, fpos, col, curFace, p)
         IN  SetRunePosTBLoop([s EXCEPT !.Render[i] = one.rr], i + 1, one.fpos,
                              one.col, one.face, p)

SetRunePosTBFn(s, letterSpace, wordSpace, chsz, tabSize) ==
    IF ~IsValid(s) THEN s
    ELSE LET p == [lspc |-> letterSpace, wspc |-> wordSpace, chsz |-> chsz,
                   tabSize |-> IF tabSize = 0 THEN 4 ELSE tabSize]
             done == SetRunePosTBLoop(s, 1, 0, 0, s.Render[1].Face, p)
         IN  [s EXCEPT !.Render = done.Render, !.LastPos = [X |-> 0, Y |-> done.fpos]]

\* one pass of the loop of SetRunePosTBRot: kerning as in SetRunePosLR, the
\* position in RelPos.Y, the superscript and subscript offsets in RelPos.X
SetRunePosTBRotRune(s, i, fpos0, col, prevR, curFace0, p) ==
    LET r == s.Text[i]
        rr == s.Render[i]
        curFace == CurFace(rr, curFace0)
        fht == FaceHeight(curFace)
        fpos == IF prevR # "none" THEN fpos0 + Kern(curFace, prevR, r) ELSE fpos0
        a == GlyphAdvance(curFace, r)
        a32 == IF a = 0 THEN fht \div 10 ELSE a
        tab == TabStopCol(fpos, col, p.chsz, p.tabSize)
    IN  [rr |-> [rr EXCEPT !.RelPos = [X |-> DecoShiftY(rr.Deco, FaceAscent(curFace)),
                                       Y |-> fpos],
                           !.Size = [X |-> fht, Y |-> a32]],
         fpos |-> IF r = Tab THEN tab.fpos ELSE AfterRune(s, i, fpos, a32, p),
         col |-> IF r = Tab THEN tab.col ELSE col + 1,
         face |-> curFace]

RECURSIVE SetRunePosTBRotLoop(_, _, _, _, _, _, _)
SetRunePosTBRotLoop(s, i, fpos, col, prevR, curFace, p) ==
    IF i > Len(s.Text) THEN [Render |-> s.Render, fpos |-> fpos]
    ELSE LET one == SetRunePosTBRotRune(s, i, fpos, col, prevR, curFace, p)
         IN  SetRunePosTBRotLoop([s EXCEPT !.Render[i] = one.rr], i + 1, one.fpos,
                                 one.col, s.Text[i], one.face, p)

SetRunePosTBRotFn(s, letterSpace, wordSpace, chsz, tabSize) ==
    IF ~IsValid(s) THEN s
    ELSE LET p == [lspc |-> letterSpace, wspc |-> wordSpace, chsz |-> chsz,
                   tabSize |-> IF tabSize = 0 THEN 4 ELSE tabSize]
             done == SetRunePosTBRotLoop(s, 1, 0, 0, "none", s.Render[1].Face, p)
         IN  [s EXCEPT !.Render = done.Render, !.LastPos = [X |-> 0, Y |-> done.fpos]]

---------------------------------------------------------------------------
(* SplitAtLR and LastFont *)

\* the last non-nil value of field f ("Face" or "Color") in Render[1..i],
\* "nil" when there is none: the backward loop of LastFont
RECURSIVE LastNonNil(_, _, _)
LastNonNil(render, i, f) ==
    IF i = 0 THEN "nil"
    ELSE IF render[i][f] # "nil" THEN render[i][f]
    ELSE LastNonNil(render, i - 1, f)

\* LastFont: the last face and the last colour set in the span
LastFont(s) ==
    [face |-> LastNonNil(s.Render, Len(s.Render), "Face"),
     color |-> LastNonNil(s.Render, Len(s.Render), "Color")]

\* the span returned by SplitAtLR(idx), before its first record is filled in
SplitTail(s, idx) ==
    [Text |-> SubSeq(s.Text, idx + 1, Len(s.Text)),
     Render |-> SubSeq(s.Render, idx + 1, Len(s.Render)),
     RelPos |-> [X |-> 0, Y |-> 0],
     LastPos |-> [X |-> 0, Y |-> 0]]

\* the first record of the tail without the font of the head
SplitBackfillOff(nsr, lf) == nsr

\* the first record of the tail takes the last face and colour of the head
\* where its own are nil
SplitBackfill(nsr, lf) ==
    IF Len(nsr.Render) = 0 THEN nsr
    ELSE [nsr EXCEPT
            !.Render[1].Face = IF @ = "nil" THEN lf.face ELSE @,
            !.Render[1].Color = IF @ = "nil" THEN lf.color ELSE @]

\* the head keeps one rune too many
SplitHeadLong(s, idx) ==
    [s EXCEPT !.Text = SubSeq(s.Text, 1, idx + 1),
              !.Render = SubSeq(s.Render, 1, idx + 1),
              !.LastPos.X = RelPosAfterLR(s.Render[idx])]

\* the span SplitAtLR(idx) leaves behind: runes 0..idx-1
SplitHead(s, idx) ==
    [s EXCEPT !.Text = SubSeq(s.Text, 1, idx),
              !.Render = SubSeq(s.Render, 1, idx),
              !.LastPos.X = RelPosAfterLR(s.Render[idx])]

\* SplitAtLR(idx): ok is FALSE for the nil result, and the span is then
\* unchanged
SplitAtLRFn(s, idx) ==
    IF idx <= 0 \/ idx >= Len(s.Text) - 1
    THEN [ok |-> FALSE, head |-> s, tail |-> EmptySpan]
    ELSE LET head == SplitHead(s, idx)
         IN  [ok |-> TRUE, head |-> head,
              tail |-> SplitBackfill(SplitTail(s, idx), LastFont(head))]

---------------------------------------------------------------------------
(* TextRender: spans and links; LayoutStdLR *)

\* TextRender.InsertSpan(at, ns), at 0-based
InsertSpan(spans, at, ns) ==
    SubSeq(spans, 1, at) \o <<ns>> \o SubSeq(spans, at + 1, Len(spans))

\* "fixup links" of LayoutStdLR after the span si-1 was split at wp and its
\* tail inserted as span si
FixupLink(tl, si, wp) ==
    LET st == IF tl.StartSpan = si - 1
              THEN (IF tl.StartIdx >= wp
                    THEN [tl EXCEPT !.StartIdx = @ - wp, !.StartSpan = @ + 1]
                    ELSE tl)
              ELSE IF tl.StartSpan > si - 1 THEN [tl EXCEPT !.StartSpan = @ + 1]
              ELSE tl
    IN  IF st.EndSpan = si - 1
        THEN (IF st.EndIdx >= wp
              THEN [st EXCEPT !.EndIdx = @ - wp, !.EndSpan = @ + 1]
              ELSE st)
        ELSE IF st.EndSpan > si - 1 THEN [st EXCEPT !.EndSpan = @ + 1]
        ELSE st

\* "make sure links are still in range": an index at or past the end of its
\* span becomes the index of the last rune
ClampLink(tl, spans) ==
    LET slen == Len(spans[tl.StartSpan + 1].Text)
        elen == Len(spans[tl.EndSpan + 1].Text)
    IN  [tl EXCEPT !.StartIdx = IF @ >= slen THEN slen - 1 ELSE @,
                   !.EndIdx = IF @ >= elen THEN elen - 1 ELSE @]

\* the test with its upper limit one rune further on
WrapUsableToEnd(s, wp) == wp > 0 /\ wp < Len(s.Text)

\* is wp a position LayoutStdLR splits at: wp > 0 && wp < len(sr.Text)-1
WrapUsable(s, wp) == wp > 0 /\ wp < Len(s.Text) - 1

\* the wrap loop of LayoutStdLR on span si (0-based) of width ssz; a holds
\* the spans, the links and the indexes of the heads made so far (heads is a
\* record of the model, not of the source); the result also gives the index
\* of the span the loop ends on. The steps of one pass follow, each with the
\* values the source holds in its locals at that point.
RECURSIVE LayoutWrapLoop(_, _, _, _, _)

\* the end of a pass: the tail fits, or the loop goes on with the tail
WrapNext(a1, si, nsz, sizeX, st) ==
    IF nsz <= sizeX THEN [a |-> a1, si |-> si]
    ELSE LayoutWrapLoop(a1, si, nsz, sizeX, st)

\* the tail nsr, positioned, is inserted after the head and the links are
\* fixed up; si is the index of the head
WrapInsert(a, si, wp, head, nsr, sizeX, st) ==
    WrapNext([Spans |-> InsertSpan([a.Spans EXCEPT ![si + 1] = head], si + 1, nsr),
              Links |-> [li \in 1..Len(a.Links) |-> FixupLink(a.Links[li], si + 1, wp)],
              heads |-> a.heads \cup {si}],
             si + 1, SizeHVX(nsr), sizeX, st)

\* nsr := sr.SplitAtLR(wp), then nsr.SetRunePosLR
WrapSplit(a, si, wp, sp, sizeX, st) ==
    WrapInsert(a, si, wp, sp.head,
               SetRunePosLRFn(sp.tail, st.LetterSpacing, st.WordSpacing, st.Ch, st.TabSize),
               sizeX, st)

\* the test of the wrap position: split, or leave the loop
WrapAt(a, si, wp, sizeX, st) ==
    IF WrapUsable(a.Spans[si + 1], wp)
    THEN WrapSplit(a, si, wp, SplitAtLRFn(a.Spans[si + 1], wp), sizeX, st)
    ELSE [a |-> a, si |-> si]

LayoutWrapLoop(a, si, ssz, sizeX, st) ==
    WrapAt(a, si, FindWrapPosLRFn(a.Spans[si + 1], sizeX, ssz), sizeX, st)

\* the first pass of LayoutStdLR from span si on
RECURSIVE LayoutPass(_, _, _, _, _)

\* after the wrap loop the pass goes on behind the last span the loop made
LayoutAfterWrap(w, sizeX, wordWrap, st) ==
    LayoutPass(w.a, w.si + 1, sizeX, wordWrap, st)

\* span si is positioned and ssz wide: the wrap loop when it is too wide
LayoutMeasured(a1, si, ssz, sizeX, wordWrap, st) ==
    IF sizeX > 0 /\ ssz > sizeX /\ wordWrap
    THEN LayoutAfterWrap(LayoutWrapLoop(a1, si, ssz, sizeX, st), sizeX, wordWrap, st)
    ELSE LayoutPass(a1, si + 1, sizeX, wordWrap, st)

\* span si with its rune positions and indent set is cur
LayoutSpan(a, si, cur, sizeX, wordWrap, st) ==
    LayoutMeasured([a EXCEPT !.Spans[si + 1] = cur], si, LayoutWidth(cur),
                   sizeX, wordWrap, st)

LayoutPass(a, si, sizeX, wordWrap, st) ==
    IF si >= Len(a.Spans) THEN a
    ELSE IF ~IsValid(a.Spans[si + 1]) THEN LayoutPass(a, si + 1, sizeX, wordWrap, st)
    ELSE LayoutSpan(a, si, LayoutPosition(a.Spans[si + 1], st), sizeX, wordWrap, st)

\* "make sure links are still in range", on every link
LayoutLinksInRange(a) ==
    [a EXCEPT !.Links = [li \in 1..Len(a.Links) |-> ClampLink(a.Links[li], a.Spans)]]

\* LayoutStdLR as far as spans and links go: the first pass, then the links
\* brought into range
LayoutStdLRFn(t, sizeX, wordWrap, st) ==
    IF Len(t.Spans) = 0 THEN [Spans |-> t.Spans, Links |-> t.Links, heads |-> {}]
    ELSE LayoutLinksInRange(LayoutPass([Spans |-> t.Spans, Links |-> t.Links, heads |-> {}],
                                       0, sizeX, wordWrap, st))

---------------------------------------------------------------------------
(* the HTML parsers SetHTMLNoPre and SetHTMLPre *)

\* the tokens decoder.Token() delivers in normal mode, and the pieces the
\* scanner of SetHTMLPre cuts its input into: a start tag with its href, an
\* end tag, character data, a comment, and the error the decoder returns at
\* a construct it cannot read
Tok(k, nm, s, href) == [k |-> k, nm |-> nm, s |-> s, href |-> href]
StartTok(nm, href) == Tok("start", nm, <<>>, href)
EndTok(nm) == Tok("end", nm, <<>>, "")
CharTok(s) == Tok("chars", "", s, "")
CommentTok == Tok("comment", "", <<>>, "")
ErrTok == Tok("err", "", <<>>, "")

Newline == "\n"

\* the font style the parse starts from, and its face, colour and decoration
BaseFont == [Face |-> "regular", Color |-> "black", Deco |-> {}]

\* SetHTMLSimpleTag: the tags that only change the font style
SetHTMLSimpleTag(tag, fs) ==
    IF tag \in {"b", "strong"} THEN [did |-> TRUE, fs |-> [fs EXCEPT !.Face = "bold"]]
    ELSE IF tag \in {"u", "ins"} THEN [did |-> TRUE, fs |-> [fs EXCEPT !.Deco = @ \cup {"Underline"}]]
    ELSE IF tag = "sup" THEN [did |-> TRUE, fs |-> [fs EXCEPT !.Deco = @ \cup {"Super"}]]
    ELSE IF tag = "sub" THEN [did |-> TRUE, fs |-> [fs EXCEPT !.Deco = @ \cup {"Sub"}]]
    ELSE [did |-> FALSE, fs |-> fs]

\* the font style of an <a>: link colour, underlined
LinkFont(fs) == [fs EXCEPT !.Color = "link", !.Deco = @ \cup {"Underline"}]

\* curSp: the last span
CurSp(t) == t.Spans[Len(t.Spans)]
SetCurSp(t, s) == [t EXCEPT !.Spans[Len(t.Spans)] = s]

\* tr.Spans = append(tr.Spans, SpanRender{})
AddSpan(t) == [t EXCEPT !.Spans = Append(@, EmptySpan)]

\* the link made to start at the start of the span
NewLinkAtZero(t, href) ==
    [Label |-> <<>>, URL |-> href,
     StartSpan |-> Len(t.Spans) - 1, StartIdx |-> 0,
     EndSpan |-> 0, EndIdx |-> 0]

\* the TextLink made at <a>: it starts at the end of the current span
NewLink(t, href) ==
    [Label |-> <<>>, URL |-> href,
     StartSpan |-> Len(t.Spans) - 1, StartIdx |-> Len(CurSp(t).Text),
     EndSpan |-> 0, EndIdx |-> 0]

\* case "a" of an end element: the end of the link curLinkIdx
EndLink(t, curLinkIdx) ==
    IF curLinkIdx >= 0
    THEN [t EXCEPT !.Links[curLinkIdx + 1].EndSpan = Len(t.Spans) - 1,
                   !.Links[curLinkIdx + 1].EndIdx = Len(CurSp(t).Text)]
    ELSE t

\* tl.Label = sstr
SetLabel(t, curLinkIdx, sstr) ==
    IF curLinkIdx >= 0 THEN [t EXCEPT !.Links[curLinkIdx + 1].Label = sstr] ELSE t

\* fstack[len(fstack)-1] and the pop at an end tag
TopFont(fstack) == fstack[Len(fstack)]
PopFont(fstack) == IF Len(fstack) > 1 THEN SubSeq(fstack, 1, Len(fstack) - 1) ELSE fstack

\* strings.TrimLeftFunc(sstr, unicode.IsSpace)
RECURSIVE TrimLeft(_)
TrimLeft(s) == IF Len(s) > 0 /\ IsSpace(s[1]) THEN TrimLeft(Tail(s)) ELSE s

\* the parse after the preamble of SetHTMLNoPre / SetHTMLPre: one empty
\* span, no link, the base font on the stack
ParseStart ==
    [tr |-> [Spans |-> <<EmptySpan>>, Links |-> <<>>],
     ps |-> [curLinkIdx |-> -1, nextIsParaStart |-> FALSE, fstack |-> <<BaseFont>>]]

\* case xml.StartElement of SetHTMLNoPre
NoPreStart(t, p, nm, href) ==
    LET curf == TopFont(p.fstack)
        simple == SetHTMLSimpleTag(nm, curf)
        isA == ~simple.did /\ nm = "a"
        isP == ~simple.did /\ nm = "p"
        fs == IF simple.did THEN simple.fs ELSE IF isA THEN LinkFont(curf) ELSE curf
        t1 == IF isA THEN [t EXCEPT !.Links = Append(@, NewLink(t, href))]
              ELSE IF isP /\ Len(CurSp(t).Text) > 0 THEN AddSpan(t)
              ELSE t
    IN  [tr |-> t1,
         ps |-> [curLinkIdx |-> IF isA THEN Len(t.Links) ELSE -1,
                 nextIsParaStart |-> IF isP THEN TRUE ELSE p.nextIsParaStart,
                 fstack |-> Append(p.fstack, fs)]]

\* case xml.EndElement of SetHTMLNoPre
NoPreEnd(t, p, nm) ==
    LET t1 == IF nm \in {"p", "br"} THEN AddSpan(t)
              ELSE IF nm = "a" THEN EndLink(t, p.curLinkIdx)
              ELSE t
    IN  [tr |-> t1,
         ps |-> [curLinkIdx |-> IF nm = "a" THEN -1 ELSE p.curLinkIdx,
                 nextIsParaStart |-> IF nm = "p" THEN TRUE ELSE p.nextIsParaStart,
                 fstack |-> PopFont(p.fstack)]]

\* case xml.CharData of SetHTMLNoPre; html.UnescapeString leaves the runes
\* of the model, none of which is "&", as they are
NoPreChars(t, p, s) ==
    LET curf == TopFont(p.fstack)
        trim == p.nextIsParaStart /\ Len(CurSp(t).Text) = 0
        sstr == IF trim THEN TrimLeft(s) ELSE s
        sp1 == AppendString(CurSp(t), sstr, curf.Face, curf.Color, curf.Deco)
        sp2 == IF trim THEN SetNewPara(sp1) ELSE sp1
    IN  [tr |-> SetLabel(SetCurSp(t, sp2), p.curLinkIdx, sstr),
         ps |-> [p EXCEPT !.nextIsParaStart = FALSE]]

\* one token of SetHTMLNoPre; a comment matches no case of the switch
NoPreStep(t, p, tok) ==
    IF tok.k = "start" THEN NoPreStart(t, p, tok.nm, tok.href)
    ELSE IF tok.k = "end" THEN NoPreEnd(t, p, tok.nm)
    ELSE IF tok.k = "chars" THEN NoPreChars(t, p, tok.s)
    ELSE [tr |-> t, ps |-> p]

\* a start tag of SetHTMLPre; <pre> itself is skipped after curLinkIdx is
\* reset, and <p> and <br> make no span (tagstack and curTag only feed a
\* log message that is commented out)
PreStart(t, p, stag, href) ==
    LET curf == TopFont(p.fstack)
        simple == SetHTMLSimpleTag(stag, curf)
        isA == ~simple.did /\ stag = "a"
        skip == ~simple.did /\ stag = "pre"
        fs == IF simple.did THEN simple.fs ELSE IF isA THEN LinkFont(curf) ELSE curf
        t1 == IF isA THEN [t EXCEPT !.Links = Append(@, NewLink(t, href))] ELSE t
    IN  [tr |-> t1,
         ps |-> [p EXCEPT !.curLinkIdx = IF isA THEN Len(t.Links) ELSE -1,
                          !.fstack = IF skip THEN @ ELSE Append(@, fs)]]

\* an end tag of SetHTMLPre
PreEnd(t, p, etag) ==
    IF etag = "pre" THEN [tr |-> t, ps |-> p]
    ELSE [tr |-> IF etag = "a" THEN EndLink(t, p.curLinkIdx) ELSE t,
          ps |-> [p EXCEPT !.curLinkIdx = IF etag = "a" THEN -1 ELSE @,
                           !.fstack = PopFont(@)]]

\* the loop "aggloop" of SetHTMLPre over the raw characters s[i..]: a line
\* feed appends what was gathered and starts a span
RECURSIVE PreRawLoop(_, _, _, _, _, _)
PreRawLoop(t, curf, s, i, tmpbuf, didNl) ==
    IF i > Len(s) THEN [tr |-> t, tmpbuf |-> tmpbuf, didNl |-> didNl]
    ELSE IF s[i] = Newline
    THEN PreRawLoop(AddSpan(SetCurSp(t, AppendString(CurSp(t), tmpbuf, curf.Face,
                                                     curf.Color, curf.Deco))),
                    curf, s, i + 1, <<>>, TRUE)
    ELSE PreRawLoop(t, curf, s, i + 1, Append(tmpbuf, s[i]), FALSE)

\* the raw characters between two tags of SetHTMLPre
PreRaw(t, p, s) ==
    LET curf == TopFont(p.fstack)
        r == PreRawLoop(t, curf, s, 1, <<>>, FALSE)
        t1 == IF r.didNl THEN r.tr
              ELSE SetLabel(SetCurSp(r.tr, AppendString(CurSp(r.tr), r.tmpbuf, curf.Face,
                                                       curf.Color, curf.Deco)),
                            p.curLinkIdx, r.tmpbuf)
    IN  [tr |-> t1, ps |-> p]

\* one piece of the input of SetHTMLPre
PreStep(t, p, tok) ==
    IF tok.k = "start" THEN PreStart(t, p, tok.nm, tok.href)
    ELSE IF tok.k = "end" THEN PreEnd(t, p, tok.nm)
    ELSE PreRaw(t, p, tok.s)

\* the whole parse of the tokens toks[i..] from the state st; in normal mode
\* the loop ends at the first error of the decoder
RECURSIVE ParseFrom(_, _, _, _)
ParseFrom(mode, st, toks, i) ==
    IF i > Len(toks) THEN st
    ELSE IF mode = "nopre" /\ toks[i].k = "err" THEN st
    ELSE ParseFrom(mode,
                   IF mode = "nopre" THEN NoPreStep(st.tr, st.ps, toks[i])
                   ELSE PreStep(st.tr, st.ps, toks[i]),
                   toks, i + 1)

\* SetHTML(str) for the input the tokens stand for
SetHTML(mode, toks) == ParseFrom(mode, ParseStart, toks, 1).tr

---------------------------------------------------------------------------
(* SplitView: inputs *)

\* most operations applied to one view
MaxOps == 3

\* arguments of SetSplits: the proportions of the example, a short list,
\* all zero, all equal, rising, and all of the space to one child
SetSplitsArgs ==
    {<<Rat(33, 100), Rat(33, 100), Rat(34, 100)>>, <<Rat(0, 1), Rat(3, 1)>>}
    \cup {[i \in 1..NKids |-> Rat(0, 1)], [i \in 1..NKids |-> Rat(2, 1)],
          [i \in 1..NKids |-> Rat(i, 1)]}
    \cup {[i \in 1..NKids |-> IF i = k THEN Rat(1, 1) ELSE Rat(0, 1)] : k \in 1..NKids}

\* drag targets nwval of SetSplitsAction: before the start of the view, inside
\* it, at its end and beyond its end
DragVals == {Rat(-1, 4), Rat(0, 1), Rat(1, 4), Rat(1, 2), Rat(1, 1), Rat(5, 4)}

\* the splitters (handles) of the view: one between each two children
Handles == 0..(NKids - 2)

\* idxs... of CollapseChild: one index or two adjacent ones, NKids being out
\* of range
CollapseArgs ==
    {<<i>> : i \in 0..NKids} \cup {<<i, i + 1>> : i \in 0..(NKids - 1)}

\* the record of the last call: its name and arguments, Splits before it
\* (pre), and for a RestoreSplits that directly follows a CollapseChild(true,
\* idx) the Splits before that collapse (pre2)
NoOp == [op |-> "Init2D", idx |-> 0, v |-> Zero, save |-> FALSE, idxs |-> <<>>,
         args |-> <<>>, pre |-> <<>>, pre2 |-> <<>>]

SavedCollapse(l) == l.op = "CollapseChild" /\ l.save /\ Len(l.idxs) = 1

---------------------------------------------------------------------------
(* text: inputs *)

\* longest text of a span
MaxLen == 4

\* largest target width, in dots
MaxTrg == 12

Texts == UNION {[1..n -> Runes] : n \in 0..MaxLen}

\* the gist.Text style and font metrics the layout reads: letter and word
\* spacing, first-line indent, tab size (0: the default of 4), width Ch of the
\* reference character
TextStyles ==
    <<[LetterSpacing |-> 0, WordSpacing |-> 0, Indent |-> 3, TabSize |-> 0, Ch |-> 2],
      [LetterSpacing |-> 1, WordSpacing |-> 1, Indent |-> 3, TabSize |-> 0, Ch |-> 2]>>

\* a span as the parser builds it: the text in one AppendString, or its first
\* rune in the regular face and the rest in bold; a paragraph start or not
NewSpan(t, bold, para) ==
    LET h == IF bold /\ Len(t) >= 2 THEN 1 ELSE Len(t)
        s1 == AppendString(EmptySpan, SubSeq(t, 1, h), "regular", "black", {})
        s2 == AppendString(s1, SubSeq(t, h + 1, Len(t)), "bold", "black", {})
    IN  IF para THEN SetNewPara(s2) ELSE s2

NoWrap == [trgSize |-> 0, curSize |-> 0, wp |-> 0]

---------------------------------------------------------------------------
(* text layout: inputs *)

\* the runes of the texts that are laid out
LayoutRunes == {"a", "b", " "}

LayoutTexts == UNION {[1..n -> LayoutRunes] : n \in 0..MaxLen}

\* a text of three words, long enough to be wrapped twice
ThreeWords == <<"a", " ", "a", " ", "a", "a">>

\* bytes.Fields / bytes.Join of SetHTMLNoPre leave a text as it is when it
\* has no white space at either end and no two white-space runes in a row
Normalized(t) ==
    /\ Len(t) > 0 => ~IsSpace(t[1]) /\ ~IsSpace(t[Len(t)])
    /\ \A k \in 1..(Len(t) - 1) : ~(IsSpace(t[k]) /\ IsSpace(t[k + 1]))

\* character data as a token, none for the empty string
CharToks(s) == IF Len(s) = 0 THEN <<>> ELSE <<CharTok(s)>>

\* the markup t[0..i) <nm> t[i..j) </nm> t[j..), as tokens
Wrapped(t, i, j, nm) ==
    CharToks(SubSeq(t, 1, i)) \o <<StartTok(nm, "")>> \o CharToks(SubSeq(t, i + 1, j))
        \o <<EndTok(nm)>> \o CharToks(SubSeq(t, j + 1, Len(t)))

\* the places 0 <= i <= j <= len(t) where an element can open and close
Cuts(t) == {x \in (0..Len(t)) \X (0..Len(t)) : x[1] <= x[2]}

\* what is laid out: preformatted text, plain, with one link or one bold
\* run anywhere in it, or followed by a line feed and an empty link; in
\* normal mode a paragraph with a link in it; and the three words, plain and
\* with one link anywhere
LayoutInputs ==
    {[mode |-> "pre", toks |-> CharToks(t)] : t \in LayoutTexts}
    \cup {[mode |-> "pre", toks |-> CharToks(ThreeWords)]}
    \cup {[mode |-> "pre", toks |-> Wrapped(ThreeWords, ij[1], ij[2], "a")] :
            ij \in Cuts(ThreeWords)}
    \cup UNION {{[mode |-> "pre", toks |-> Wrapped(t, ij[1], ij[2], nm)] :
                ij \in Cuts(t), nm \in {"a", "b"}} : t \in LayoutTexts}
    \cup {[mode |-> "pre",
           toks |-> <<CharTok(Append(t, Newline)), StartTok("a", ""), EndTok("a")>>] :
            t \in LayoutTexts}
    \cup UNION {{[mode |-> "nopre",
                  toks |-> <<StartTok("p", "")>> \o Wrapped(t, ij[1], ij[2], "a")
                               \o <<EndTok("p")>>] :
                    ij \in Cuts(t)} : t \in {x \in LayoutTexts : Normalized(x)}}

\* no text set
NoText == [Spans |-> <<>>, Links |-> <<>>]

NoInput == [mode |-> "none", toks |-> <<>>, script |-> <<>>]

\* what the model records of a parse: for each element that is open the
\* index of its link (-1 when it is not an <a>), for each link the character
\* data delivered while its <a> was open, and for each link whether its </a>
\* was read and the end of the text at that moment
NoHist == [open |-> <<>>, pieces |-> <<>>, closed |-> <<>>]

\* what the model records of the layout calls: the width and word-wrap
\* setting, the text before the call, the spans the first call split, and
\* the last SplitAtLR call
NoSplit == [si |-> 0, k |-> 0, pre |-> EmptySpan, ok |-> FALSE, tail |-> EmptySpan]
NoLay == [size |-> 0, wordWrap |-> FALSE, pre |-> NoText, heads |-> {}, split |-> NoSplit]

---------------------------------------------------------------------------
(* the HTML parsers: inputs *)

\* most tokens of a markup that is not the example
MaxToks == 5

\* the tags, the link target and the character data of the markups
ParseTags == {"a", "b", "p", "br"}
PreTags == {"a", "b"}
ExampleURL == "http://x"
ParseStrs == {<<"a">>, <<" ", "b">>}
PreStrs == {<<"a">>, <<"a", Newline, "b">>, <<"b", Newline>>}

\* what may follow a malformed construct in the input
AfterErr == {<<>>, <<CharTok(<<"a">>)>>}

\* the example <b>Hi</b> <a href='http://x'>there</a> as the decoder
\* delivers it; bytes.Fields and bytes.Join leave the string as it is
Example ==
    <<StartTok("b", ""), CharTok(<<"H", "i">>), EndTok("b"), CharTok(<<" ">>),
      StartTok("a", ExampleURL), CharTok(<<"t", "h", "e", "r", "e">>), EndTok("a")>>

\* the text of all spans, in order
RECURSIVE FlatText(_)
FlatText(spans) ==
    IF Len(spans) = 0 THEN <<>> ELSE spans[1].Text \o FlatText(Tail(spans))

\* the runes a step of the parser added to the spans
Added(t, t1) ==
    SubSeq(FlatText(t1.Spans), Len(FlatText(t.Spans)) + 1, Len(FlatText(t1.Spans)))

\* the record of the parse after a start tag, an end tag, character data
HistStart(h, nm, li) ==
    [open |-> Append(h.open, [nm |-> nm, link |-> IF nm = "a" THEN li ELSE -1]),
     pieces |-> IF nm = "a" THEN Append(h.pieces, <<>>) ELSE h.pieces,
     closed |-> IF nm = "a" THEN Append(h.closed, [done |-> FALSE, span |-> 0, idx |-> 0])
                ELSE h.closed]

HistEnd(h, t) ==
    LET top == h.open[Len(h.open)]
    IN  [h EXCEPT !.open = SubSeq(@, 1, Len(@) - 1),
                  !.closed = IF top.link >= 0
                             THEN [@ EXCEPT ![top.link + 1] =
                                      [done |-> TRUE, span |-> Len(t.Spans) - 1,
                                       idx |-> Len(CurSp(t).Text)]]
                             ELSE @]

HistChars(h, added) ==
    [h EXCEPT !.pieces =
        [li \in 1..Len(@) |->
            IF \E k \in 1..Len(h.open) : h.open[k].link = li - 1
            THEN @[li] \o added ELSE @[li]]]

---------------------------------------------------------------------------
(* the view after Init2D: Splits and SavedSplits nil, then UpdateSplits *)

SInit ==
    /\ Splits = UpdateSplits(<<>>, NKids)
    /\ SavedSplits = <<>>
    /\ last = NoOp
    /\ nops = 0
    /\ sr = EmptySpan
    /\ sty = TextStyles[1]
    /\ tpc = "idle"
    /\ wrap = NoWrap
    /\ tr = NoText
    /\ ps = ParseStart.ps
    /\ inp = NoInput
    /\ hist = NoHist
    /\ hpc = "idle"
    /\ lay = NoLay
    /\ XIdle

Layout2D ==
    /\ nops < MaxOps
    /\ Splits' = UpdateSplits(Splits, NKids)
    /\ last' = [NoOp EXCEPT !.op = "Layout2D", !.pre = Splits]
    /\ nops' = nops + 1
    /\ UNCHANGED <<SavedSplits, sr, sty, tpc, wrap>>
    /\ UNCHANGED hvars
    /\ UNCHANGED xvars

SetSplits ==
    /\ nops < MaxOps
    /\ \E a \in SetSplitsArgs :
        /\ Splits' = SetSplitsFn(Splits, NKids, a)
        /\ last' = [NoOp EXCEPT !.op = "SetSplits", !.args = a, !.pre = Splits]
    /\ nops' = nops + 1
    /\ UNCHANGED <<SavedSplits, sr, sty, tpc, wrap>>
    /\ UNCHANGED hvars
    /\ UNCHANGED xvars

RestoreSplits ==
    /\ nops < MaxOps
    /\ Splits' = RestoreSplitsFn(Splits, NKids, SavedSplits)
    /\ last' = [NoOp EXCEPT !.op = "RestoreSplits", !.pre = Splits,
                            !.pre2 = IF SavedCollapse(last) THEN last.pre ELSE <<>>]
    /\ nops' = nops + 1
    /\ UNCHANGED <<SavedSplits, sr, sty, tpc, wrap>>
    /\ UNCHANGED hvars
    /\ UNCHANGED xvars

CollapseChild ==
    /\ nops < MaxOps
    /\ \E save \in BOOLEAN, idxs \in CollapseArgs :
        /\ SavedSplits' = IF save THEN SaveSplitsFn(Splits, SavedSplits) ELSE SavedSplits
        /\ Splits' = CollapseChildFn(Splits, NKids, idxs)
        /\ last' = [NoOp EXCEPT !.op = "CollapseChild", !.save = save, !.idxs = idxs,
                                !.pre = Splits]
    /\ nops' = nops + 1
    /\ UNCHANGED tvars
    /\ UNCHANGED hvars
    /\ UNCHANGED xvars

SetSplitsAction ==
    /\ nops < MaxOps
    /\ \E idx \in Handles, v \in DragVals :
        /\ Splits' = SetSplitsActionFn(Splits, NKids, idx, v)
        /\ last' = [NoOp EXCEPT !.op = "SetSplitsAction", !.idx = idx, !.v = v,
                                !.pre = Splits]
    /\ nops' = nops + 1
    /\ UNCHANGED <<SavedSplits, sr, sty, tpc, wrap>>
    /\ UNCHANGED hvars
    /\ UNCHANGED xvars

SNext ==
    \/ Layout2D
    \/ SetSplits
    \/ RestoreSplits
    \/ CollapseChild
    \/ SetSplitsAction

Spec == SInit /\ [][SNext]_vars

---------------------------------------------------------------------------
(* text: one span, positioned and then searched for a wrap position *)

TInit ==
    /\ \E t \in Texts, bold \in BOOLEAN, para \in BOOLEAN :
            sr = NewSpan(t, bold, para)
    /\ \E k \in 1..Len(TextStyles) : sty = TextStyles[k]
    /\ tpc = "new"
    /\ wrap = NoWrap
    /\ Splits = <<>>
    /\ SavedSplits = <<>>
    /\ last = NoOp
    /\ nops = 0
    /\ tr = NoText
    /\ ps = ParseStart.ps
    /\ inp = NoInput
    /\ hist = NoHist
    /\ hpc = "idle"
    /\ lay = NoLay
    /\ XIdle

\* LayoutStdLR reaches the span: SetRunePosLR, then the indent
SetRunePosLR ==
    /\ tpc = "new"
    /\ sr' = LayoutPosition(sr, sty)
    /\ tpc' = "positioned"
    /\ UNCHANGED <<sty, wrap, Splits, SavedSplits, last, nops>>
    /\ UNCHANGED hvars
    /\ UNCHANGED xvars

\* FindWrapPosLR(trgSize, curSize) on the positioned span, curSize its width;
\* an empty span returns before curSize is read
FindWrapPosLR ==
    /\ tpc = "positioned"
    /\ \E trgSize \in 0..MaxTrg :
        LET curSize == LayoutWidth(sr)
        IN  /\ Len(sr.Text) = 0 \/ curSize > 0
            /\ wrap' = [trgSize |-> trgSize, curSize |-> curSize,
                        wp |-> FindWrapPosLRFn(sr, trgSize, curSize)]
    /\ tpc' = "wrapped"
    /\ UNCHANGED <<sr, sty, Splits, SavedSplits, last, nops>>
    /\ UNCHANGED hvars
    /\ UNCHANGED xvars

TNext ==
    \/ SetRunePosLR
    \/ FindWrapPosLR

SpecText == TInit /\ [][TNext]_vars

---------------------------------------------------------------------------
(* SplitView: the claims *)

Calls == {"SetSplits", "CollapseChild", "RestoreSplits", "SetSplitsAction"}

InRange(x, lo, hi) == RLe(lo, x) /\ RLe(x, hi)
Near(x, y, tol) == RLe(RSub(x, y), tol) /\ RLe(RSub(y, x), tol)

\* the total of regions idx+1..N-1 (0-based) of s
RestOf(s, idx) == RSub(SumTo(s, Len(s)), SumTo(s, idx + 1))

\* C1: after every SetSplits, CollapseChild, RestoreSplits and
\* SetSplitsAction call, whatever calls came before it and whatever the drag
\* target, the proportions in Splits sum to 1.
C1_SumIsOne ==
    last.op \in Calls => SumTo(Splits, Len(Splits)) = One

C1_Witness ==
    /\ nops >= 2
    /\ last.op = "SetSplitsAction"
    /\ Splits # last.pre
    /\ SumTo(Splits, Len(Splits)) = One

\* C2 (as claimed): after SetSplitsAction(idx, v), for every handle idx and
\* every target v, also v < 0 and v > 1, every proportion lies in [0, 1].
C2_AlwaysInRange ==
    last.op = "SetSplitsAction" =>
        \A i \in 1..Len(Splits) : InRange(Splits[i], Zero, One)

\* proportions: every value in [0, 1] (the sum is 1 by C1)
Proportions(s) == \A i \in 1..Len(s) : InRange(s[i], Zero, One)

\* C3: starting from proportions (values in [0, 1]) that sum to 1, after
\* SetSplitsAction(idx, v) with v <= 1 regions 0..idx-1 are unchanged, and the
\* splitter value read back (the sum of regions 0..idx) is v when v is at
\* least the sum of regions 0..idx-1, and otherwise is that sum, with region
\* idx exactly 0.
C3_DragReadBack ==
    (last.op = "SetSplitsAction" /\ RLe(last.v, One) /\ Proportions(last.pre)) =>
        LET before == SumTo(last.pre, last.idx)
        IN  /\ \A i \in 1..last.idx : Splits[i] = last.pre[i]
            /\ IF RLe(before, last.v)
               THEN SplitterValue(Splits, last.idx) = last.v
               ELSE /\ Splits[last.idx + 1] = Zero
                    /\ SplitterValue(Splits, last.idx) = before

C3_Witness ==
    /\ last.op = "SetSplitsAction"
    /\ Proportions(last.pre)
    /\ last.idx = 1
    /\ RLt(last.v, SumTo(last.pre, last.idx))
    /\ RLt(Zero, last.pre[last.idx + 1])
    /\ Splits[last.idx + 1] = Zero
    /\ RLt(Zero, Splits[1])

\* the remainder rem is shared by regions idx+1..N-1 as C4 describes: in
\* proportion to their previous values (so the ratio of any two is kept), or
\* in equal shares when their previous total was <= 0 and rem is positive
SharesRemainder(rem) ==
    LET n == Len(Splits)
        oldtot == RestOf(last.pre, last.idx)
        rest == (last.idx + 2)..n
    IN  IF RLt(Zero, oldtot)
        THEN /\ \A i \in rest : Splits[i] = RMul(rem, RDiv(last.pre[i], oldtot))
             /\ \A i, j \in rest :
                    RMul(Splits[i], last.pre[j]) = RMul(Splits[j], last.pre[i])
        ELSE RLt(Zero, rem) =>
                \A i \in rest : Splits[i] = RDiv(rem, Rat((n - 1) - last.idx, 1))

\* the drag target after the clamp: v, but not less than the sum of regions
\* 0..idx-1
ClampedTarget ==
    LET before == SumTo(last.pre, last.idx)
    IN  IF RLe(before, last.v) THEN last.v ELSE before

\* C4 (as claimed): SetSplitsAction(idx, v) shares the remainder 1 - v among
\* regions idx+1..N-1, in proportion to their previous values, or equally
\* when their previous total was <= 0 and the remainder is positive.
C4_RemainderOfTarget ==
    last.op = "SetSplitsAction" => SharesRemainder(RSub(One, last.v))

\* C4 (amended): SetSplitsAction(idx, v) shares the remainder 1 - v', where
\* v' is v after the clamp (v, but not less than the sum of regions
\* 0..idx-1), among regions idx+1..N-1: in proportion to their previous
\* values, so that the ratio of any two of them is unchanged, or equally when
\* their previous total was <= 0 and the remainder is positive.
C4_RemainderOfClamped ==
    last.op = "SetSplitsAction" => SharesRemainder(RSub(One, ClampedTarget))

C4_Witness ==
    /\ last.op = "SetSplitsAction"
    /\ last.idx = 0
    /\ RLt(last.v, Zero)
    /\ RLt(Zero, last.pre[1])
    /\ RLt(Zero, last.pre[2]) /\ RLt(last.pre[2], last.pre[3])
    /\ RMul(Splits[2], last.pre[3]) = RMul(Splits[3], last.pre[2])
    /\ RAdd(Splits[2], Splits[3]) = One

\* the case of C5: three regions at [0.33, 0.33, 0.34], handle 0 dragged to 0.5
C5_Case ==
    /\ last.op = "SetSplitsAction"
    /\ last.pre = <<Rat(33, 100), Rat(33, 100), Rat(34, 100)>>
    /\ last.idx = 0
    /\ last.v = Rat(1, 2)

\* C5 (as claimed): the result is [0.5, 0.165, 0.335], to the three decimals
\* given.
C5_AsClaimed ==
    C5_Case =>
        /\ Near(Splits[1], Rat(500, 1000), Rat(1, 1000))
        /\ Near(Splits[2], Rat(165, 1000), Rat(1, 1000))
        /\ Near(Splits[3], Rat(335, 1000), Rat(1, 1000))

\* C5 (amended): with three regions at [0.33, 0.33, 0.34], SetSplitsAction(0,
\* 0.5) yields [0.5, 0.246, 0.254] to three decimals (exactly 1/2, 33/134 and
\* 34/134): regions 1 and 2 keep their ratio 0.33 : 0.34.
C5_Proportional ==
    C5_Case =>
        /\ Near(Splits[1], Rat(500, 1000), Rat(1, 1000))
        /\ Near(Splits[2], Rat(246, 1000), Rat(1, 1000))
        /\ Near(Splits[3], Rat(254, 1000), Rat(1, 1000))

C5_Witness == C5_Case /\ Splits = <<Rat(1, 2), Rat(33, 134), Rat(34, 134)>>

\* C6: SetSplitsAction(idx, v) with v the current splitter value (the sum of
\* regions 0..idx, so delta = 0) leaves every proportion unchanged, and after
\* any SetSplitsAction(idx, v) a second call with the same arguments changes
\* nothing.
C6_Idempotent ==
    last.op = "SetSplitsAction" =>
        /\ last.v = SplitterValue(last.pre, last.idx) => Splits = last.pre
        /\ SetSplitsActionFn(Splits, NKids, last.idx, last.v) = Splits

C6_Witness ==
    /\ last.op = "SetSplitsAction"
    /\ last.v = SplitterValue(last.pre, last.idx)
    /\ last.idx = 0
    /\ RLt(Zero, last.pre[2]) /\ RLt(last.pre[2], last.pre[3])
    /\ Splits = last.pre

Listed == {last.idxs[k] : k \in 1..Len(last.idxs)} \cap (0..(NKids - 1))

---------------------------------------------------------------------------
(* word wrap: the claims *)

NoSpaceIn(text) == \A i \in 1..Len(text) : ~IsSpace(text[i])

\* C9: when FindWrapPosLR returns an index k with 0 < k < len(Text), the rune
\* before k is whitespace and the rune at k is not: the break lies after a
\* whole whitespace run and never inside a word, also when the first word is
\* wider than the target width.
C9_BreakAfterSpace ==
    (tpc = "wrapped" /\ 0 < wrap.wp /\ wrap.wp < Len(sr.Text)) =>
        /\ IsSpace(sr.Text[wrap.wp])
        /\ ~IsSpace(sr.Text[wrap.wp + 1])

\* a first word of two runes or more that ends beyond the target width, and
\* the break after the whitespace run that follows it
C9_Witness ==
    /\ tpc = "wrapped"
    /\ Len(sr.Text) = MaxLen
    /\ ~IsSpace(sr.Text[1]) /\ ~IsSpace(sr.Text[2])
    /\ sr.RelPos.X + RelPosAfterLR(sr.Render[2]) > wrap.trgSize
    /\ IsSpace(sr.Text[3])
    /\ wrap.wp = 3
    /\ ~IsSpace(sr.Text[4])

\* C10 (as claimed): for a non-empty span whose text has no whitespace rune,
\* FindWrapPosLR returns the unbreakable sentinel -1, whatever the target
\* width.
C10_Unbreakable ==
    (tpc = "wrapped" /\ Len(sr.Text) > 0 /\ NoSpaceIn(sr.Text)) => wrap.wp = -1

---------------------------------------------------------------------------
(* text layout: parsed text, laid out once or twice at one width, or one *)
(* of its spans split; preformatted text without extra spacing, normal   *)
(* text with letter and word spacing                                      *)

LInit ==
    /\ \E in \in LayoutInputs :
        /\ inp = in
        /\ tr = SetHTML(in.mode, in.toks)
        /\ sty = IF in.mode = "pre" THEN TextStyles[1] ELSE TextStyles[2]
    /\ ps = ParseStart.ps
    /\ hist = NoHist
    /\ lay = NoLay
    /\ XIdle
    /\ hpc = "ready"
    /\ sr = EmptySpan
    /\ tpc = "idle"
    /\ wrap = NoWrap
    /\ Splits = <<>>
    /\ SavedSplits = <<>>
    /\ last = NoOp
    /\ nops = 0

\* LayoutStdLR(txtSty, fontSty, ctxt, size); the second call has the
\* arguments of the first
LayoutStdLR ==
    /\ hpc \in {"ready", "laid"}
    /\ \E sizeX \in 0..MaxTrg, wordWrap \in BOOLEAN :
        /\ hpc = "laid" => sizeX = lay.size /\ wordWrap = lay.wordWrap
        /\ ~wordWrap => sizeX = MaxTrg
        /\ \E r \in {LayoutStdLRFn(tr, sizeX, wordWrap, sty)} :
               /\ tr' = [Spans |-> r.Spans, Links |-> r.Links]
               /\ lay' = IF hpc = "ready"
                         THEN [lay EXCEPT !.size = sizeX, !.wordWrap = wordWrap,
                                          !.pre = tr, !.heads = r.heads]
                         ELSE [lay EXCEPT !.pre = tr]
    /\ hpc' = IF hpc = "ready" THEN "laid" ELSE "relaid"
    /\ UNCHANGED <<inp, ps, hist, sty, sr, tpc, wrap, Splits, SavedSplits, last, nops>>
    /\ UNCHANGED xvars

\* SplitAtLR(k) on span si of the text
SplitAtLR ==
    /\ hpc = "ready"
    /\ \E si \in 1..Len(tr.Spans), k \in (-1)..(MaxLen + 1) :
        LET r == SplitAtLRFn(tr.Spans[si], k)
        IN  /\ tr' = [tr EXCEPT !.Spans[si] = r.head]
            /\ lay' = [lay EXCEPT !.split = [si |-> si, k |-> k, pre |-> tr.Spans[si],
                                             ok |-> r.ok, tail |-> r.tail]]
    /\ hpc' = "split"
    /\ UNCHANGED <<inp, ps, hist, sty, sr, tpc, wrap, Splits, SavedSplits, last, nops>>
    /\ UNCHANGED xvars

LNext ==
    \/ LayoutStdLR
    \/ SplitAtLR

SpecLayout == LInit /\ [][LNext]_vars

---------------------------------------------------------------------------
(* the HTML parsers, token by token *)

HInit ==
    /\ \E mode \in {"nopre", "pre"}, script \in {<<>>, Example} :
        /\ script # <<>> => mode = "nopre"
        /\ inp = [mode |-> mode, toks |-> <<>>, script |-> script]
    /\ tr = ParseStart.tr
    /\ ps = ParseStart.ps
    /\ hist = NoHist
    /\ hpc = "parsing"
    /\ lay = NoLay
    /\ XIdle
    /\ sty = TextStyles[1]
    /\ sr = EmptySpan
    /\ tpc = "idle"
    /\ wrap = NoWrap
    /\ Splits = <<>>
    /\ SavedSplits = <<>>
    /\ last = NoOp
    /\ nops = 0

\* is tok the next token of the input: the next one of the example, or any
\* token while the markup is short
NextTok(tok) ==
    IF inp.script # <<>>
    THEN Len(inp.toks) < Len(inp.script) /\ tok = inp.script[Len(inp.toks) + 1]
    ELSE /\ Len(inp.toks) < MaxToks
         /\ tok.k = "chars" => tok.s \in ParseStrs \cup PreStrs
         /\ tok.href = ""

\* the element that is open, "" for none; <br> is closed at once
\* (decoder.AutoClose)
OpenTag == IF Len(hist.open) = 0 THEN "" ELSE hist.open[Len(hist.open)].nm

\* was the last token character data
AfterChars == Len(inp.toks) > 0 /\ inp.toks[Len(inp.toks)].k = "chars"

\* the end of the input
AtEnd == IF inp.script # <<>> THEN Len(inp.toks) = Len(inp.script) ELSE TRUE

HOther == <<lay, sty, sr, tpc, wrap, Splits, SavedSplits, last, nops, xvars>>

\* SetHTMLNoPre reads a start element
NoPreStartElement ==
    /\ hpc = "parsing" /\ inp.mode = "nopre" /\ OpenTag # "br"
    /\ \E nm \in ParseTags, href \in {"", ExampleURL} :
        /\ href # "" => nm = "a"
        /\ NextTok(StartTok(nm, href))
        /\ LET r == NoPreStart(tr, ps, nm, href)
           IN  /\ tr' = r.tr
               /\ ps' = r.ps
               /\ hist' = HistStart(hist, nm, Len(tr.Links))
        /\ inp' = [inp EXCEPT !.toks = Append(@, StartTok(nm, href))]
    /\ UNCHANGED <<hpc, HOther>>

\* SetHTMLNoPre reads the end element of the open element
NoPreEndElement ==
    /\ hpc = "parsing" /\ inp.mode = "nopre" /\ OpenTag # ""
    /\ NextTok(EndTok(OpenTag))
    /\ LET r == NoPreEnd(tr, ps, OpenTag)
       IN  /\ tr' = r.tr
           /\ ps' = r.ps
    /\ hist' = HistEnd(hist, tr)
    /\ inp' = [inp EXCEPT !.toks = Append(@, EndTok(OpenTag))]
    /\ UNCHANGED <<hpc, HOther>>

\* SetHTMLNoPre reads character data
NoPreCharData ==
    /\ hpc = "parsing" /\ inp.mode = "nopre" /\ OpenTag # "br" /\ ~AfterChars
    /\ \E s \in ParseStrs \cup {Example[2].s, Example[4].s, Example[6].s} :
        /\ NextTok(CharTok(s))
        /\ LET r == NoPreChars(tr, ps, s)
           IN  /\ tr' = r.tr
               /\ ps' = r.ps
               /\ hist' = HistChars(hist, Added(tr, r.tr))
        /\ inp' = [inp EXCEPT !.toks = Append(@, CharTok(s))]
    /\ UNCHANGED <<hpc, HOther>>

\* SetHTMLNoPre reads a comment: no case of the switch
NoPreComment ==
    /\ hpc = "parsing" /\ inp.mode = "nopre" /\ OpenTag # "br"
    /\ NextTok(CommentTok)
    /\ inp' = [inp EXCEPT !.toks = Append(@, CommentTok)]
    /\ UNCHANGED <<tr, ps, hist, hpc, HOther>>

\* decoder.Token() returns an error that is not io.EOF at a construct it
\* cannot read: SetHTMLNoPre leaves its loop, whatever follows in the input
NoPreError ==
    /\ hpc = "parsing" /\ inp.mode = "nopre" /\ OpenTag # "br"
    /\ NextTok(ErrTok)
    /\ \E rest \in AfterErr :
        inp' = [inp EXCEPT !.toks = Append(@, ErrTok) \o rest]
    /\ hpc' = "parsed"
    /\ UNCHANGED <<tr, ps, hist, HOther>>

\* decoder.Token() returns io.EOF
NoPreEOF ==
    /\ hpc = "parsing" /\ inp.mode = "nopre" /\ OpenTag # "br"
    /\ AtEnd
    /\ hpc' = "parsed"
    /\ UNCHANGED <<tr, ps, hist, inp, HOther>>

\* SetHTMLPre reads a start tag
PreStartTag ==
    /\ hpc = "parsing" /\ inp.mode = "pre"
    /\ \E stag \in PreTags :
        /\ NextTok(StartTok(stag, ""))
        /\ LET r == PreStart(tr, ps, stag, "")
           IN  /\ tr' = r.tr
               /\ ps' = r.ps
               /\ hist' = HistStart(hist, stag, Len(tr.Links))
        /\ inp' = [inp EXCEPT !.toks = Append(@, StartTok(stag, ""))]
    /\ UNCHANGED <<hpc, HOther>>

\* SetHTMLPre reads the end tag of the open element
PreEndTag ==
    /\ hpc = "parsing" /\ inp.mode = "pre" /\ OpenTag # ""
    /\ NextTok(EndTok(OpenTag))
    /\ LET r == PreEnd(tr, ps, OpenTag)
       IN  /\ tr' = r.tr
           /\ ps' = r.ps
    /\ hist' = HistEnd(hist, tr)
    /\ inp' = [inp EXCEPT !.toks = Append(@, EndTok(OpenTag))]
    /\ UNCHANGED <<hpc, HOther>>

\* SetHTMLPre reads the raw characters up to the next tag
PreRawChars ==
    /\ hpc = "parsing" /\ inp.mode = "pre" /\ ~AfterChars
    /\ \E s \in PreStrs :
        /\ NextTok(CharTok(s))
        /\ LET r == PreRaw(tr, ps, s)
           IN  /\ tr' = r.tr
               /\ ps' = r.ps
               /\ hist' = HistChars(hist, Added(tr, r.tr))
        /\ inp' = [inp EXCEPT !.toks = Append(@, CharTok(s))]
    /\ UNCHANGED <<hpc, HOther>>

\* SetHTMLPre reaches the end of its input
PreEOF ==
    /\ hpc = "parsing" /\ inp.mode = "pre"
    /\ hpc' = "parsed"
    /\ UNCHANGED <<tr, ps, hist, inp, HOther>>

HNext ==
    \/ NoPreStartElement
    \/ NoPreEndElement
    \/ NoPreCharData
    \/ NoPreComment
    \/ NoPreError
    \/ NoPreEOF
    \/ PreStartTag
    \/ PreEndTag
    \/ PreRawChars
    \/ PreEOF

SpecHTML == HInit /\ [][HNext]_vars

---------------------------------------------------------------------------
(* rune positions: one span, positioned in one of the three writing modes *)

\* the decorations of the second run of a span
PosDecos == {{}, {"Super"}, {"Sub"}}

\* a span of two runs: t[0..k) in the regular face and t[k..) in bold with
\* decoration deco
PosSpan(t, k, deco) ==
    AppendString(AppendString(EmptySpan, SubSeq(t, 1, k), "regular", "black", {}),
                 SubSeq(t, k + 1, Len(t)), "bold", "black", deco)

PInit ==
    /\ \E t \in Texts, deco \in PosDecos :
        \E k \in 0..Len(t) : sr = PosSpan(t, k, deco)
    /\ \E k \in 1..Len(TextStyles) : sty = TextStyles[k]
    /\ tpc = "new"
    /\ wrap = NoWrap
    /\ Splits = <<>>
    /\ SavedSplits = <<>>
    /\ last = NoOp
    /\ nops = 0
    /\ tr = NoText
    /\ ps = ParseStart.ps
    /\ inp = NoInput
    /\ hist = NoHist
    /\ hpc = "idle"
    /\ lay = NoLay
    /\ XIdle

\* SetRunePosTB with the spacing, Ch and tab size of the style
SetRunePosTB ==
    /\ tpc = "new"
    /\ sr' = SetRunePosTBFn(sr, sty.LetterSpacing, sty.WordSpacing, sty.Ch, sty.TabSize)
    /\ tpc' = "positionedTB"
    /\ UNCHANGED <<sty, wrap, Splits, SavedSplits, last, nops>>
    /\ UNCHANGED hvars
    /\ UNCHANGED xvars

\* SetRunePosTBRot with the spacing, Ch and tab size of the style
SetRunePosTBRot ==
    /\ tpc = "new"
    /\ sr' = SetRunePosTBRotFn(sr, sty.LetterSpacing, sty.WordSpacing, sty.Ch, sty.TabSize)
    /\ tpc' = "positionedTBRot"
    /\ UNCHANGED <<sty, wrap, Splits, SavedSplits, last, nops>>
    /\ UNCHANGED hvars
    /\ UNCHANGED xvars

PNext ==
    \/ SetRunePosLR
    \/ SetRunePosTB
    \/ SetRunePosTBRot

SpecPos == PInit /\ [][PNext]_vars

---------------------------------------------------------------------------
(* slice indexing of the text engine: which calls index out of range *)

\* the outcome of a call that may index out of range: the span it leaves,
\* and whether it panicked
Done(s) == [s |-> s, fault |-> FALSE]
Panic(s) == [s |-> s, fault |-> TRUE]

\* ZeroPosLR: the positions moved so that the first rune is at 0
ZeroPosLRFn(s) ==
    IF Len(s.Text) = 0 THEN Done(s)
    ELSE IF Len(s.Render) = 0 THEN Panic(s)
    ELSE IF s.Render[1].RelPos.X = 0 THEN Done(s)
    ELSE Done([s EXCEPT !.Render = [i \in 1..Len(s.Render) |->
                                       [s.Render[i] EXCEPT !.RelPos.X = @ - s.Render[1].RelPos.X]],
                        !.LastPos.X = @ - s.Render[1].RelPos.X])

\* the face and colour of srr0 given to the new first record where it has none
TrimBackfill(render, srr0) ==
    IF Len(render) = 0 THEN render
    ELSE [render EXCEPT ![1].Face = IF @ = "nil" THEN srr0.Face ELSE @,
                        ![1].Color = IF @ = "nil" THEN srr0.Color ELSE @]

\* the loop of TrimSpaceLeftLR: `for range sr.Text` makes as many passes as
\* the text had runes at the start, n of them still to go
RECURSIVE TrimSpaceLeftLoop(_, _, _)
TrimSpaceLeftLoop(s, n, srr0) ==
    IF n = 0 THEN Done(s)
    ELSE IF ~IsSpace(s.Text[1]) THEN Done(s)
    ELSE IF Len(s.Render) = 0 THEN Panic(s)
    ELSE TrimSpaceLeftLoop([s EXCEPT !.Text = Tail(@),
                                     !.Render = TrimBackfill(Tail(@), srr0)],
                           n - 1, srr0)

\* the end of TrimSpaceLeftLR: ZeroPosLR on what the loop left
TrimSpaceLeftEnd(t) == IF t.fault THEN t ELSE ZeroPosLRFn(t.s)

\* TrimSpaceLeftLR: srr0 := sr.Render[0] comes first, also for an empty span
TrimSpaceLeftLRFn(s) ==
    IF Len(s.Render) = 0 THEN Panic(s)
    ELSE TrimSpaceLeftEnd(TrimSpaceLeftLoop(s, Len(s.Text), s.Render[1]))

\* one trailing space cut off by TrimSpaceRightLR, lidx the index of the
\* space: LastPos.X is read from the record before it or, when the space was
\* the only rune, from Render[0] of the Render that is empty by then
RECURSIVE TrimSpaceRightLoop(_, _)

TrimSpaceRightCut(s, n, lidx) ==
    IF lidx > Len(s.Render) THEN Panic(s)
    ELSE IF lidx = 0
    THEN Panic([s EXCEPT !.Text = <<>>, !.Render = <<>>])
    ELSE TrimSpaceRightLoop([s EXCEPT !.Text = SubSeq(@, 1, lidx),
                                      !.Render = SubSeq(@, 1, lidx),
                                      !.LastPos.X = RelPosAfterLR(s.Render[lidx])],
                            n - 1)

TrimSpaceRightLoop(s, n) ==
    IF n = 0 THEN Done(s)
    ELSE IF ~IsSpace(s.Text[Len(s.Text)]) THEN Done(s)
    ELSE TrimSpaceRightCut(s, n, Len(s.Text) - 1)

TrimSpaceRightLRFn(s) == TrimSpaceRightLoop(s, Len(s.Text))

\* a / b truncated toward zero, as the conversion of a float to int does
TruncDiv(a, b) ==
    IF (a >= 0) = (b > 0) THEN Abs(a) \div Abs(b) ELSE -(Abs(a) \div Abs(b))

\* the values int(float32(sz) * (trgSize / curSize)) can have. With curSize 0
\* the quotient is an infinity or NaN, and the conversion of such a value to
\* int is implementation-dependent: the most negative int (here -1), the
\* largest int (here sz) for +Inf, 0 for NaN
WrapEstimates(sz, trgSize, curSize) ==
    IF curSize # 0 THEN {TruncDiv(sz * trgSize, curSize)}
    ELSE IF trgSize > 0 THEN {-1, sz}
    ELSE IF trgSize < 0 THEN {-1}
    ELSE {-1, 0}

\* the span with its text cut to the length of its Render
CutToRender(s) ==
    IF Len(s.Render) < Len(s.Text) THEN [s EXCEPT !.Text = SubSeq(@, 1, Len(s.Render))]
    ELSE s

\* does the upward loop of FindWrapPosLR from est read Render[len(Render)]:
\* it does when Render is shorter than Text and no rune up to the end of
\* Render ends beyond trgSize
WrapUpFaults(s, est, trgSize) ==
    /\ Len(s.Render) < Len(s.Text)
    /\ s.RelPos.X + RelPosAfterLR(s.Render[est + 1]) <= trgSize
    /\ WrapUp(CutToRender(s), est, trgSize) = Len(s.Render) - 1

\* does FindWrapPosLR index Render out of range, its first estimate being
\* idx0: at sr.Render[idx], or in the loop that goes up from there
FindWrapPosLRFaults(s, idx0, trgSize) ==
    /\ Len(s.Text) > 0
    /\ \/ idx0 < 0
       \/ (IF idx0 >= Len(s.Text) THEN Len(s.Text) - 1 ELSE idx0) >= Len(s.Render)
       \/ WrapUpFaults(s, IF idx0 >= Len(s.Text) THEN Len(s.Text) - 1 ELSE idx0, trgSize)

\* does TextLink.Bounds index the span list or a Render slice out of range
BoundsFaults(tl, t) ==
    \/ tl.StartSpan \notin 0..(Len(t.Spans) - 1)
    \/ tl.StartIdx \notin 0..(Len(t.Spans[tl.StartSpan + 1].Render) - 1)
    \/ /\ tl.EndSpan = tl.StartSpan
       /\ tl.EndIdx \notin 0..(Len(t.Spans[tl.StartSpan + 1].Render) - 1)

\* the corners of the rectangle of TextLink.Bounds for pos = (0, 0), before
\* they are rounded outward: from the top left of the first rune of the link
\* to the right end of its last rune in the first span
BoundsFn(tl, t) ==
    LET stsp == t.Spans[tl.StartSpan + 1]
        srr == stsp.Render[tl.StartIdx + 1]
        er == IF tl.EndSpan = tl.StartSpan THEN stsp.Render[tl.EndIdx + 1]
              ELSE stsp.Render[Len(stsp.Render)]
    IN  [Min |-> [X |-> stsp.RelPos.X + srr.RelPos.X,
                  Y |-> stsp.RelPos.Y + srr.RelPos.Y - srr.Size.Y],
         Max |-> [X |-> stsp.RelPos.X + er.RelPos.X + er.Size.X,
                  Y |-> stsp.RelPos.Y + er.RelPos.Y]]

---------------------------------------------------------------------------
(* slice indexing: one call on a span, or TextLink.Bounds on a laid-out text *)

\* the spans the calls are made on: a span as the parser builds it and
\* LayoutStdLR positions it (the empty span included), and the same with its
\* Render cut to fewer records than it has runes
ShortRender(s) ==
    {[s EXCEPT !.Render = SubSeq(@, 1, k)] : k \in {0, Len(s.Text) - 1} \cap 0..(Len(s.Text) - 1)}

SafeSpans ==
    UNION {{LayoutPosition(NewSpan(t, bold, FALSE), TextStyles[1])}
           \cup ShortRender(LayoutPosition(NewSpan(t, bold, FALSE), TextStyles[1]))
           : t \in Texts, bold \in BOOLEAN}

\* the texts with a link among the layout inputs
LinkInputs == {in \in LayoutInputs : Len(SetHTML(in.mode, in.toks).Links) > 0}

\* the widths the texts are laid out at
SafeWidths == {0, MaxTrg \div 2, MaxTrg}

\* the target widths and current widths FindWrapPosLR is called with
SafeTargets == (-2)..MaxTrg
SafeCurrent(s) == {-1, 0, LayoutWidth(s)}

SafeInit ==
    /\ \/ /\ sr \in SafeSpans
          /\ tpc = "positioned"
          /\ tr = NoText
          /\ hpc = "idle"
          /\ inp = NoInput
       \/ /\ \E in \in LinkInputs, sizeX \in SafeWidths :
                /\ inp = in
                /\ \E r \in {LayoutStdLRFn(SetHTML(in.mode, in.toks), sizeX, TRUE, TextStyles[1])} :
                       tr = [Spans |-> r.Spans, Links |-> r.Links]
          /\ hpc = "laid"
          /\ sr = EmptySpan
          /\ tpc = "idle"
    /\ sty = TextStyles[1]
    /\ wrap = NoWrap
    /\ Splits = <<>>
    /\ SavedSplits = <<>>
    /\ last = NoOp
    /\ nops = 0
    /\ ps = ParseStart.ps
    /\ hist = NoHist
    /\ lay = NoLay
    /\ XIdle

SafeOther ==
    <<sty, Splits, SavedSplits, last, nops, tr, ps, inp, hist, hpc, lay, bnds, mu, gs, rin, draw,
      kvars>>

\* TrimSpaceLeftLR on the span
TrimSpaceLeftLR ==
    /\ tpc = "positioned"
    /\ \E r \in {TrimSpaceLeftLRFn(sr)} : sr' = r.s /\ fault' = r.fault
    /\ tpc' = "trimmed"
    /\ UNCHANGED <<wrap, SafeOther>>

\* TrimSpaceRightLR on the span
TrimSpaceRightLR ==
    /\ tpc = "positioned"
    /\ \E r \in {TrimSpaceRightLRFn(sr)} : sr' = r.s /\ fault' = r.fault
    /\ tpc' = "trimmed"
    /\ UNCHANGED <<wrap, SafeOther>>

\* FindWrapPosLR(trgSize, curSize) with any widths, zero and negative ones
\* included
FindWrapPosLRAny ==
    /\ tpc = "positioned"
    /\ \E trgSize \in SafeTargets, curSize \in SafeCurrent(sr) :
        \E idx0 \in WrapEstimates(Len(sr.Text), trgSize, curSize) :
            /\ fault' = FindWrapPosLRFaults(sr, idx0, trgSize)
            /\ wrap' = IF fault' \/ curSize <= 0 \/ trgSize < 0
                       THEN [trgSize |-> trgSize, curSize |-> curSize, wp |-> 0]
                       ELSE [trgSize |-> trgSize, curSize |-> curSize,
                             wp |-> FindWrapPosLRFn(sr, trgSize, curSize)]
    /\ tpc' = "wrapped"
    /\ UNCHANGED <<sr, SafeOther>>

\* TextLink.Bounds of a link of the laid-out text
Bounds ==
    /\ hpc = "laid"
    /\ \E li \in 1..Len(tr.Links) :
        /\ fault' = BoundsFaults(tr.Links[li], tr)
        /\ bnds' = IF fault' THEN <<>> ELSE BoundsFn(tr.Links[li], tr)
    /\ hpc' = "bounded"
    /\ UNCHANGED <<sr, tpc, wrap, sty, Splits, SavedSplits, last, nops, tr, ps, inp, hist, lay>>
    /\ UNCHANGED <<mu, gs, rin, draw, kvars>>

SafeNext ==
    \/ TrimSpaceLeftLR
    \/ TrimSpaceRightLR
    \/ FindWrapPosLRAny
    \/ Bounds

SpecSafe == SafeInit /\ [][SafeNext]_vars

---------------------------------------------------------------------------
(* TextFontRenderMu and the font queries of the text engine, as the steps *)
(* of each call in the order the source makes them                        *)

\* the most runes of a span that is positioned or rendered
MaxRunes == 2

\* the queries of a font face: Metrics(), Kern(), GlyphAdvance(), Glyph()
FontQueries == {"Metrics", "Kern", "GlyphAdvance", "Glyph"}

\* the loop of SetRunePosLR from rune i (1-based) of n: Metrics().Height,
\* Kern from the second rune on, GlyphAdvance
RECURSIVE PosRuneSteps(_, _)
PosRuneSteps(i, n) ==
    IF i > n THEN <<>>
    ELSE <<"Metrics">> \o (IF i > 1 THEN <<"Kern">> ELSE <<>>) \o <<"GlyphAdvance">>
         \o PosRuneSteps(i + 1, n)

\* SetRunePosLR on a span of n runes: nothing for a span that is not valid,
\* else the loop between Lock and the deferred Unlock
SetRunePosLRSteps(n) ==
    IF n = 0 THEN <<>>
    ELSE <<"Lock">> \o PosRuneSteps(1, n) \o <<"Unlock">>

\* the rune loop of Render: Metrics().Descent and Glyph for each rune
RECURSIVE RenderRuneSteps(_)
RenderRuneSteps(n) ==
    IF n = 0 THEN <<>> ELSE <<"Metrics", "Glyph">> \o RenderRuneSteps(n - 1)

\* Render of a text of one span of n runes without decoration: all of it
\* between Lock and the deferred Unlock
RenderSteps(n) == <<"Lock">> \o RenderRuneSteps(n) \o <<"Unlock">>

\* RenderTopPos: Metrics().Ascent of the first face, then Render; returns at
\* once when the first span is not valid
RenderTopPosSteps(n) ==
    IF n = 0 THEN <<>> ELSE <<"Metrics">> \o RenderSteps(n)

\* TextRender.SetString: SetRunePosLR, then Metrics().Height of the font
SetStringSteps(n) == SetRunePosLRSteps(n) \o <<"Metrics">>

\* LayoutStdLR of a text of one span of n runes that fits: Metrics().Descent
\* of the font, then SetRunePosLR of the span
LayoutStdLRSteps(n) == <<"Metrics">> \o SetRunePosLRSteps(n)

TextCalls == {"SetRunePosLR", "Render", "RenderTopPos", "SetString", "LayoutStdLR"}

CallSteps(op, n) ==
    IF op = "SetRunePosLR" THEN SetRunePosLRSteps(n)
    ELSE IF op = "Render" THEN RenderSteps(n)
    ELSE IF op = "RenderTopPos" THEN RenderTopPosSteps(n)
    ELSE IF op = "SetString" THEN SetStringSteps(n)
    ELSE LayoutStdLRSteps(n)

MuInit ==
    /\ sr = EmptySpan
    /\ sty = TextStyles[1]
    /\ tpc = "idle"
    /\ wrap = NoWrap
    /\ Splits = <<>>
    /\ SavedSplits = <<>>
    /\ last = NoOp
    /\ nops = 0
    /\ tr = NoText
    /\ ps = ParseStart.ps
    /\ inp = NoInput
    /\ hist = NoHist
    /\ hpc = "idle"
    /\ lay = NoLay
    /\ XIdle

MuOther == <<svars, tvars, hvars, fault, bnds, rin, draw, kvars>>

\* goroutine g calls one of the functions on a span of n runes
Call(g) ==
    /\ gs[g].op = "none"
    /\ \E op \in TextCalls, n \in 0..MaxRunes :
        gs' = [gs EXCEPT ![g] = [op |-> op, steps |-> CallSteps(op, n), inq |-> FALSE]]
    /\ UNCHANGED <<mu, MuOther>>

\* TextFontRenderMu.Lock(): g goes on when no goroutine holds the mutex
Lock(g) ==
    /\ gs[g].steps # <<>> /\ Head(gs[g].steps) = "Lock"
    /\ mu = 0
    /\ mu' = g
    /\ gs' = [gs EXCEPT ![g].steps = Tail(@)]
    /\ UNCHANGED MuOther

\* the deferred TextFontRenderMu.Unlock()
Unlock(g) ==
    /\ gs[g].steps # <<>> /\ Head(gs[g].steps) = "Unlock"
    /\ mu' = 0
    /\ gs' = [gs EXCEPT ![g].steps = Tail(@)]
    /\ UNCHANGED MuOther

\* g enters a query of a font face
QueryBegin(g) ==
    /\ gs[g].steps # <<>> /\ Head(gs[g].steps) \in FontQueries
    /\ ~gs[g].inq
    /\ gs' = [gs EXCEPT ![g].inq = TRUE]
    /\ UNCHANGED <<mu, MuOther>>

\* the query of g returns
QueryEnd(g) ==
    /\ gs[g].inq
    /\ gs' = [gs EXCEPT ![g].inq = FALSE, ![g].steps = Tail(@)]
    /\ UNCHANGED <<mu, MuOther>>

\* the call of g returns
Return(g) ==
    /\ gs[g].op # "none" /\ gs[g].steps = <<>>
    /\ gs' = [gs EXCEPT ![g].op = "none"]
    /\ UNCHANGED <<mu, MuOther>>

MuNext ==
    \/ \E g \in Goroutines : Call(g)
    \/ \E g \in Goroutines : Lock(g)
    \/ \E g \in Goroutines : Unlock(g)
    \/ \E g \in Goroutines : QueryBegin(g)
    \/ \E g \in Goroutines : QueryEnd(g)
    \/ \E g \in Goroutines : Return(g)

SpecMu == MuInit /\ [][MuNext]_vars

---------------------------------------------------------------------------
(* the decoration passes of Render: RenderBg, RenderUnderline, RenderLine *)

\* the calls a pass makes on the Paint; i is the rune (0-based) a call is
\* made for, and a Fill carries the FillStyle colour in force when it is made
DrawPolygon(i) == [c |-> "DrawPolygon", i |-> i, color |-> "nil"]
Fill(color) == [c |-> "Fill", i |-> -1, color |-> color]
Stroke == [c |-> "Stroke", i |-> -1, color |-> "nil"]
NewSubPath == [c |-> "NewSubPath", i |-> -1, color |-> "nil"]
MoveTo(i) == [c |-> "MoveTo", i |-> i, color |-> "nil"]
LineTo(i) == [c |-> "LineTo", i |-> i, color |-> "nil"]

\* if didLast { pc.Fill(rs) }
FillIf(didLast, color, calls) == IF didLast THEN Append(calls, Fill(color)) ELSE calls

\* if didLast { pc.Stroke(rs) }
StrokeIf(didLast, calls) == IF didLast THEN Append(calls, Stroke) ELSE calls

\* the loop of RenderBg from rune i (1-based) on; color is the FillStyle
\* colour, which every rune that is drawn sets to its own
RECURSIVE RenderBgLoop(_, _, _, _, _)
RenderBgLoop(in, i, didLast, color, calls) ==
    IF i > Len(in) THEN FillIf(didLast, color, calls)
    ELSE IF in[i].bg = "nil" \/ ~in[i].vis
    THEN RenderBgLoop(in, i + 1, FALSE, color, FillIf(didLast, color, calls))
    ELSE RenderBgLoop(in, i + 1, TRUE, in[i].bg, Append(calls, DrawPolygon(i - 1)))

RenderBgFn(in) == RenderBgLoop(in, 1, FALSE, "nil", <<>>)

\* the line of one rune: continued from the rune before, or a new sub-path
LineOfRune(didLast, i) ==
    (IF didLast THEN <<LineTo(i)>> ELSE <<NewSubPath, MoveTo(i)>>) \o <<LineTo(i)>>

\* the loop of RenderUnderline and of RenderLine from rune i (1-based) on: a
\* rune that is not printable is passed over, one without the decoration
\* ends the run, one outside the bounds strokes and leaves didLast as it is
RECURSIVE RenderLineLoop(_, _, _, _)
RenderLineLoop(in, i, didLast, calls) ==
    IF i > Len(in) THEN StrokeIf(didLast, calls)
    ELSE IF ~in[i].print THEN RenderLineLoop(in, i + 1, didLast, calls)
    ELSE IF ~in[i].deco THEN RenderLineLoop(in, i + 1, FALSE, StrokeIf(didLast, calls))
    ELSE IF ~in[i].vis THEN RenderLineLoop(in, i + 1, didLast, StrokeIf(didLast, calls))
    ELSE RenderLineLoop(in, i + 1, TRUE, calls \o LineOfRune(didLast, i - 1))

RenderUnderlineFn(in) == RenderLineLoop(in, 1, FALSE, <<>>)
RenderLineFn(in) == RenderLineLoop(in, 1, FALSE, <<>>)

\* the runes of a span with background colours, and of a span with a line
\* decoration on some of its runes
BgRunes ==
    [bg : {"nil", "red", "blue"}, deco : {FALSE}, vis : BOOLEAN, print : {TRUE}]
LineRunes ==
    [bg : {"nil"}, deco : BOOLEAN, vis : BOOLEAN, print : BOOLEAN]

RInit ==
    /\ \E n \in 1..MaxLen : rin \in [1..n -> BgRunes] \cup [1..n -> LineRunes]
    /\ draw = [fn |-> "none", calls |-> <<>>]
    /\ fault = FALSE
    /\ bnds = <<>>
    /\ mu = 0
    /\ gs = [g \in Goroutines |-> [op |-> "none", steps |-> <<>>, inq |-> FALSE]]
    /\ KIdle
    /\ sr = EmptySpan
    /\ sty = TextStyles[1]
    /\ tpc = "idle"
    /\ wrap = NoWrap
    /\ Splits = <<>>
    /\ SavedSplits = <<>>
    /\ last = NoOp
    /\ nops = 0
    /\ tr = NoText
    /\ ps = ParseStart.ps
    /\ inp = NoInput
    /\ hist = NoHist
    /\ hpc = "idle"
    /\ lay = NoLay

ROther == <<svars, tvars, hvars, fault, bnds, mu, gs, rin, kvars>>

\* Render calls RenderBg when the span has a background colour
RenderBg ==
    /\ draw.fn = "none"
    /\ \E i \in 1..Len(rin) : rin[i].bg # "nil"
    /\ draw' = [fn |-> "RenderBg", calls |-> RenderBgFn(rin)]
    /\ UNCHANGED ROther

\* Render calls RenderUnderline when the span has an underline
RenderUnderline ==
    /\ draw.fn = "none"
    /\ \E i \in 1..Len(rin) : rin[i].deco
    /\ draw' = [fn |-> "RenderUnderline", calls |-> RenderUnderlineFn(rin)]
    /\ UNCHANGED ROther

\* Render calls RenderLine when the span has an overline or a line-through
RenderLine ==
    /\ draw.fn = "none"
    /\ \E i \in 1..Len(rin) : rin[i].deco
    /\ draw' = [fn |-> "RenderLine", calls |-> RenderLineFn(rin)]
    /\ UNCHANGED ROther

RNext ==
    \/ RenderBg
    \/ RenderUnderline
    \/ RenderLine

SpecRender == RInit /\ [][RNext]_vars

----------------------------------------------------------------------------
(* SetHTML on a TextRender that already holds a text *)

\* SetHTML(str) on the text t: SetHTMLNoPre returns on len(str) = 0 before
\* it makes the new span list and clears the links, SetHTMLPre after it;
\* sz0 says that str is the empty string
SetHTMLOn(t, mode, toks, sz0) ==
    IF sz0 /\ mode = "nopre" THEN t
    ELSE IF sz0 THEN ParseStart.tr
    ELSE SetHTML(mode, toks)

\* the strings of the second call: the empty string is the only one of them
\* without tokens
ResetInputs ==
    {[mode |-> m, toks |-> ts] :
        m \in {"nopre", "pre"},
        ts \in {<<>>, CharToks(<<"a">>), CharToks(<<"b", "a">>),
                <<StartTok("a", ""), CharTok(<<"b">>), EndTok("a")>>}}

\* a text was set from any of the inputs laid out above
ResetInit ==
    /\ \E in \in LayoutInputs :
        /\ inp = in
        /\ tr = SetHTML(in.mode, in.toks)
    /\ sty = TextStyles[1]
    /\ ps = ParseStart.ps
    /\ hist = NoHist
    /\ lay = NoLay
    /\ XIdle
    /\ hpc = "ready"
    /\ sr = EmptySpan
    /\ tpc = "idle"
    /\ wrap = NoWrap
    /\ Splits = <<>>
    /\ SavedSplits = <<>>
    /\ last = NoOp
    /\ nops = 0

ResetOther == <<svars, tvars, xvars, ps, hist, lay>>

\* tr.SetHTML(str, ...) called again on the same TextRender
SetHTMLCall ==
    /\ hpc = "ready"
    /\ \E in \in ResetInputs :
        /\ tr' = SetHTMLOn(tr, in.mode, in.toks, Len(in.toks) = 0)
        /\ inp' = in
    /\ hpc' = "reset"
    /\ UNCHANGED ResetOther

ResetNext == SetHTMLCall

SpecReset == ResetInit /\ [][ResetNext]_vars

----------------------------------------------------------------------------
(* key maps: KeyMap.Update and SetActiveKeyMap *)

\* KeyFuns: Nil is 0 and the defined key functions are 1..KeyFunsN, here a
\* few in place of the 66 of the source
Nil == 0
KeyFunsN == 4

\* the chord Update makes for the function mi: "- Not Set - " and its name
NotSetChord(mi) == <<"- Not Set - ", mi>>

\* the chords of the maps: three keys, and a chord that an earlier Update
\* made and a user then gave another function to
Chords == {<<"key", 1>>, <<"key", 2>>, <<"key", 3>>, NotSetChord(1)}

KeyMaps == UNION {[D -> Nil..KeyFunsN] : D \in SUBSET Chords}

\* delete(*km, key) for every key whose function is Nil
DeleteNil(m) == [c \in {x \in DOMAIN m : m[x] # Nil} |-> m[c]]

\* km.ToSlice() sorted by Fun, from the function f on: the functions of the
\* entries, which is all that Update reads of them
RECURSIVE SortedFuns(_, _)
SortedFuns(m, f) ==
    IF f > KeyFunsN THEN <<>>
    ELSE [i \in 1..Cardinality({c \in DOMAIN m : m[c] = f}) |-> f] \o SortedFuns(m, f + 1)

\* the items added for the functions between lfun and fun
MissingItems(lfun, fun) ==
    [k \in 1..(fun - lfun - 1) |-> [Key |-> NotSetChord(lfun + k), Fun |-> lfun + k]]

\* the loop over kms from item i on, with lfun and addkm as they are there
RECURSIVE UpdateLoop(_, _, _, _)
UpdateLoop(kms, i, lfun, addkm) ==
    IF i > Len(kms) THEN addkm
    ELSE IF kms[i] # lfun
         THEN UpdateLoop(kms, i + 1, kms[i],
                         IF kms[i] - lfun > 1 THEN addkm \o MissingItems(lfun, kms[i])
                         ELSE addkm)
         ELSE UpdateLoop(kms, i + 1, lfun, addkm)

\* (*km)[ai.Key] = ai.Fun for the items of addkm from i on
RECURSIVE AddItems(_, _, _)
AddItems(m, addkm, i) ==
    IF i > Len(addkm) THEN m
    ELSE AddItems([c \in DOMAIN m \cup {addkm[i].Key} |->
                      IF c = addkm[i].Key THEN addkm[i].Fun ELSE m[c]],
                  addkm, i + 1)

\* the map after km.Update(kmName), given the map without its Nil entries
UpdateAdd(m) == AddItems(m, UpdateLoop(SortedFuns(m, Nil + 1), 1, Nil, <<>>), 1)

UpdateFn(m) == UpdateAdd(DeleteNil(m))

\* any map over the chords, not yet active
KInit ==
    /\ km \in KeyMaps
    /\ kmPre = <<>>
    /\ ActiveKeyMap = <<>>
    /\ fault = FALSE
    /\ bnds = <<>>
    /\ mu = 0
    /\ gs = [g \in Goroutines |-> [op |-> "none", steps |-> <<>>, inq |-> FALSE]]
    /\ rin = <<>>
    /\ draw = [fn |-> "none", calls |-> <<>>]
    /\ sr = EmptySpan
    /\ sty = TextStyles[1]
    /\ tpc = "idle"
    /\ wrap = NoWrap
    /\ Splits = <<>>
    /\ SavedSplits = <<>>
    /\ last = NoOp
    /\ nops = 0
    /\ tr = NoText
    /\ ps = ParseStart.ps
    /\ inp = NoInput
    /\ hist = NoHist
    /\ hpc = "idle"
    /\ lay = NoLay

KOther == <<svars, tvars, hvars, fault, bnds, mu, gs, rin, draw>>

\* km.Update(kmName)
Update ==
    /\ ActiveKeyMap = <<>>
    /\ kmPre = <<>>
    /\ km' = UpdateFn(km)
    /\ kmPre' = <<km>>
    /\ UNCHANGED <<ActiveKeyMap, KOther>>

\* SetActiveKeyMap(km, kmName): Update, then the map is made the active one
SetActiveKeyMap ==
    /\ ActiveKeyMap = <<>>
    /\ \E m \in {UpdateFn(km)} :
        /\ km' = m
        /\ ActiveKeyMap' = <<m>>
    /\ kmPre' = <<km>>
    /\ UNCHANGED KOther

KNext ==
    \/ Update
    \/ SetActiveKeyMap

SpecKeys == KInit /\ [][KNext]_vars

---------------------------------------------------------------------------
(* text layout: the claims *)

\* a position 0 < k < len(text) right after a whitespace run: the text can
\* be split there into two non-empty spans
HasBreak(text) ==
    \E k \in 1..(Len(text) - 1) : IsSpace(text[k]) /\ ~IsSpace(text[k + 1])

\* C11 (as claimed): after LayoutStdLR with word-wrap enabled and a positive
\* constraint width, every span is no wider (indent included) than the
\* constraint width, or has no whitespace boundary at which it could still
\* be split into two non-empty spans.
C11_FitsOrUnbreakable ==
    (hpc = "laid" /\ lay.wordWrap /\ lay.size > 0) =>
        \A i \in 1..Len(tr.Spans) :
            \/ LayoutWidth(tr.Spans[i]) <= lay.size
            \/ ~HasBreak(tr.Spans[i].Text)

\* C12: FindWrapPosLR on a head span that LayoutStdLR made by a split, with
\* the same target width, returns -1 or an index at or beyond the end of the
\* head, and a second LayoutStdLR at that width leaves the head as it is.
C12_HeadNotSplitAgain ==
    (hpc = "relaid") =>
        \A i \in lay.heads :
            LET head == lay.pre.Spans[i + 1]
                wp == FindWrapPosLRFn(head, lay.size, LayoutWidth(head))
            IN  /\ wp = -1 \/ wp >= Len(head.Text)
                /\ tr.Spans[i + 1] = head

\* a head wider than the width (its first word does not fit) and a head that
\* fits, both laid out a second time
C12_Witness ==
    /\ hpc = "relaid"
    /\ Cardinality(lay.heads) = 1
    /\ \E i \in lay.heads :
        /\ LayoutWidth(lay.pre.Spans[i + 1]) > lay.size
        /\ Len(lay.pre.Spans[i + 1].Text) >= 2
        /\ tr.Spans[i + 1] = lay.pre.Spans[i + 1]

RECURSIVE EffFonts(_)
EffFonts(spans) ==
    IF Len(spans) = 0 THEN <<>>
    ELSE [i \in 1..Len(spans[1].Render) |->
              <<LastNonNil(spans[1].Render, i, "Face"),
                LastNonNil(spans[1].Render, i, "Color")>>]
         \o EffFonts(Tail(spans))

\* C14: after LayoutStdLR every non-empty span is valid, and the face and
\* colour in effect on every rune are what they were before the call.
C14_ValidAndSameFonts ==
    (hpc = "laid") =>
        /\ \A i \in 1..Len(tr.Spans) :
               Len(tr.Spans[i].Text) > 0 => IsValid(tr.Spans[i])
        /\ EffFonts(tr.Spans) = EffFonts(lay.pre.Spans)

\* a split inside a bold run: the tail starts with a record that had no face
\* of its own
C14_Witness ==
    /\ hpc = "laid"
    /\ lay.heads = {0}
    /\ Len(lay.pre.Spans) = 1
    /\ LET wp == Len(tr.Spans[1].Text)
       IN  /\ lay.pre.Spans[1].Render[wp + 1].Face = "nil"
           /\ tr.Spans[2].Render[1].Face = "bold"
           /\ lay.pre.Spans[1].Render[1].Face = "regular"

\* C15 (as claimed): after LayoutStdLR every link has StartSpan and EndSpan
\* inside the span list, and StartIdx and EndIdx between 0 and the length of
\* the text of the span they refer to.
C15_LinksInRange ==
    (hpc \in {"laid", "relaid"}) =>
        \A li \in 1..Len(tr.Links) :
            LET tl == tr.Links[li]
            IN  /\ tl.StartSpan \in 0..(Len(tr.Spans) - 1)
                /\ tl.EndSpan \in 0..(Len(tr.Spans) - 1)
                /\ tl.StartIdx \in 0..Len(tr.Spans[tl.StartSpan + 1].Text)
                /\ tl.EndIdx \in 0..Len(tr.Spans[tl.EndSpan + 1].Text)

---------------------------------------------------------------------------
(* the HTML parsers: the claims *)

C17_LabelIsAllPieces ==
    \A li \in 1..Len(tr.Links) :
        hist.closed[li].done => tr.Links[li].Label = hist.pieces[li]

\* C18 (as claimed): a link whose </a> was read has the end of the text at
\* that moment as its end, and its end does not lie before its start.
C18_EndAtClose ==
    \A li \in 1..Len(tr.Links) :
        hist.closed[li].done =>
            LET tl == tr.Links[li]
            IN  /\ tl.EndSpan = hist.closed[li].span
                /\ tl.EndIdx = hist.closed[li].idx
                /\ \/ tl.EndSpan > tl.StartSpan
                   \/ tl.EndSpan = tl.StartSpan /\ tl.EndIdx >= tl.StartIdx

\* the markup without its malformed constructs
RemoveErr(toks) == SelectSeq(toks, LAMBDA x : x.k # "err")

\* C19 (as claimed): normal-mode parsing skips a malformed construct and
\* goes on: the text it produces is the text the markup gives without that
\* construct, so the character data that follows it is in the spans.
C19_ParseGoesOn ==
    (hpc = "parsed" /\ inp.mode = "nopre") =>
        FlatText(tr.Spans) = FlatText(SetHTML("nopre", RemoveErr(inp.toks)).Spans)

---------------------------------------------------------------------------
(* rune positions: the claims *)

\* the position of a record along the primary axis of the mode: X for
\* left-to-right text, Y for the two top-to-bottom modes
PrimaryPos(rr) == IF tpc = "positioned" THEN rr.RelPos.X ELSE rr.RelPos.Y

\* C20 (as claimed): SetRunePosLR, SetRunePosTB and SetRunePosTBRot on a
\* valid span of n runes, letter spacing >= 0, give each of the n records a
\* position and a size, and the positions of two consecutive runes neither
\* of which is a tab do not decrease along the primary axis.
C20_PositionsMonotone ==
    (tpc \in {"positioned", "positionedTB", "positionedTBRot"} /\ IsValid(sr)) =>
        /\ Len(sr.Render) = Len(sr.Text)
        /\ \A i \in 1..Len(sr.Render) :
               sr.Render[i].Size.X > 0 /\ sr.Render[i].Size.Y > 0
        /\ \A i \in 1..(Len(sr.Text) - 1) :
               (sr.Text[i] # Tab /\ sr.Text[i + 1] # Tab) =>
                   PrimaryPos(sr.Render[i + 1]) >= PrimaryPos(sr.Render[i])

\* the span without superscript and subscript marks
StripDeco(s) ==
    [s EXCEPT !.Render = [i \in 1..Len(s.Render) |->
                              [s.Render[i] EXCEPT !.Deco = @ \ {"Super", "Sub"}]]]

\* the span as the positioning call of the mode leaves it
PositionedAs(mode, s) ==
    IF mode = "positioned"
    THEN SetRunePosLRFn(s, sty.LetterSpacing, sty.WordSpacing, sty.Ch, sty.TabSize)
    ELSE IF mode = "positionedTB"
    THEN SetRunePosTBFn(s, sty.LetterSpacing, sty.WordSpacing, sty.Ch, sty.TabSize)
    ELSE SetRunePosTBRotFn(s, sty.LetterSpacing, sty.WordSpacing, sty.Ch, sty.TabSize)

\* the position of a record on the axis perpendicular to the writing
\* direction: Y for left-to-right text, X for the two top-to-bottom modes
PerpPos(rr) == IF tpc = "positioned" THEN rr.RelPos.Y ELSE rr.RelPos.X

\* the three modes agree with the undecorated positioning of the same span on
\* the primary axis and on LastPos, and a decorated rune is shifted on the
\* perpendicular axis by the offset of its decoration
DecoOnlyShifts(s) ==
    LET plain == PositionedAs(tpc, StripDeco(s))
    IN  /\ s.LastPos = plain.LastPos
        /\ \A i \in 1..Len(s.Render) :
               /\ PrimaryPos(s.Render[i]) = PrimaryPos(plain.Render[i])
               /\ PerpPos(s.Render[i]) =
                      PerpPos(plain.Render[i])
                      + DecoShiftY(s.Render[i].Deco, FaceAscent(LastNonNil(s.Render, i, "Face")))

\* C21 (as claimed): in each of the three writing modes a superscript or
\* subscript mark changes only the offset of its rune on the perpendicular
\* axis, by -0.45 or +0.15 of the ascent; the primary-axis positions of all
\* runes and LastPos are as without the mark.
C21_DecoOnlyPerpendicular ==
    (tpc \in {"positioned", "positionedTB", "positionedTBRot"} /\ IsValid(sr)) =>
        DecoOnlyShifts(sr)

\* the width of a tab column in dots: the tab size (0: the default of 4) in
\* reference character widths
TabWidth(st) == (IF st.TabSize = 0 THEN 4 ELSE st.TabSize) * st.Ch

\* the smallest multiple of w that lies beyond x
NextMultiple(x, w) == ((x \div w) + 1) * w

\* C22 (as claimed): after SetRunePosLR, kerning zero, the rune that follows a
\* tab starts at the smallest multiple of the tab width that lies beyond the
\* position at which the tab began; in "a<TAB>b" that is 4 reference widths.
C22_TabToNextStop ==
    (tpc = "positioned" /\ IsValid(sr)) =>
        \A i \in 1..(Len(sr.Text) - 1) :
            sr.Text[i] = Tab =>
                sr.Render[i + 1].RelPos.X
                    = NextMultiple(sr.Render[i].RelPos.X, TabWidth(sty))

\* C23 (as claimed): no call of the text engine indexes a Text or Render
\* slice or the span list out of range, on any span (empty, or with fewer
\* Render records than runes), with any target and current width, and on
\* any link of a laid-out text.
C23_NoIndexOutOfRange == fault = FALSE

\* C24 (as claimed): every query of a font face is made by the goroutine that
\* holds TextFontRenderMu, so no two goroutines are in a font query at the
\* same time.
C24_QueriesUnderLock ==
    /\ \A g \in Goroutines : gs[g].inq => mu = g
    /\ \A g, h \in Goroutines : (gs[g].inq /\ gs[h].inq) => g = h

\* the index in the calls of the Fill that paints the polygon of rune i
\* (0-based): the first Fill after the DrawPolygon of the rune, 0 for none
FillOf(calls, i) ==
    LET at == CHOOSE k \in 1..Len(calls) : calls[k].c = "DrawPolygon" /\ calls[k].i = i
        later == {k \in (at + 1)..Len(calls) : calls[k].c = "Fill"}
    IN  IF later = {} THEN 0 ELSE CHOOSE k \in later : \A m \in later : k <= m

\* is rune i (1-based) drawn by RenderBg: it has a background colour and is
\* within the bounds
BgDrawn(i) == rin[i].bg # "nil" /\ rin[i].vis

\* runes i <= j lie in one run of contiguous drawn runes of one colour
SameBgRun(i, j) == \A k \in i..j : BgDrawn(k) /\ rin[k].bg = rin[i].bg

\* C25 (as claimed): after RenderBg every run of contiguous visible runes of
\* one background colour is painted by one Fill with that colour, and two
\* runes that are not in one such run are painted by different Fill calls.
C25_OneFillPerRun ==
    (draw.fn = "RenderBg") =>
        \A i \in 1..Len(rin) :
            BgDrawn(i) =>
                /\ FillOf(draw.calls, i - 1) # 0
                /\ draw.calls[FillOf(draw.calls, i - 1)].color = rin[i].bg
                /\ \A j \in i..Len(rin) :
                       BgDrawn(j) =>
                           ((FillOf(draw.calls, i - 1) = FillOf(draw.calls, j - 1))
                                <=> SameBgRun(i, j))

\* the calls between call m and call k, both excluded, hold no Stroke
NoStrokeBetween(calls, m, k) == \A n \in (m + 1)..(k - 1) : calls[n].c # "Stroke"

\* C30 (as claimed): in RenderUnderline and RenderLine every LineTo belongs
\* to a sub-path opened by NewSubPath/MoveTo after the most recent Stroke,
\* and every Stroke strokes a sub-path opened since the Stroke before it, so
\* each decorated run is stroked once.
C30_LineToInOpenSubPath ==
    (draw.fn \in {"RenderUnderline", "RenderLine"}) =>
        \A k \in 1..Len(draw.calls) :
            (draw.calls[k].c \in {"LineTo", "Stroke"}) =>
                \E m \in 1..(k - 1) :
                    /\ draw.calls[m].c = "MoveTo"
                    /\ NoStrokeBetween(draw.calls, m, k)

\* C26: after SetHTML(str) returns, the spans and links are those that str
\* gives on a TextRender that never held a text: nothing of the text set
\* before remains, for the empty string too and in both modes
C26_OnlyTheNewText ==
    hpc = "reset" =>
        LET fresh == SetHTMLOn(NoText, inp.mode, inp.toks, Len(inp.toks) = 0)
        IN  /\ tr.Links = fresh.Links
            /\ [i \in 1..Len(tr.Spans) |-> tr.Spans[i].Text]
                   = [i \in 1..Len(fresh.Spans) |-> fresh.Spans[i].Text]

\* the spans after a layout fall into groups, one for each span before it: a
\* span whose index is in heads is followed by its tail in the same group.
\* GroupOf(hs, k) is the group of the span k (0-based), counted from 1
GroupOf(hs, k) == 1 + Cardinality({m \in 0..(k - 1) : m \notin hs})

\* the runes in the spans behind the head i of its group: the tail that the
\* split of i returned
RECURSIVE TailLen(_, _, _)
TailLen(spans, hs, i) ==
    IF i \notin hs \/ i + 2 > Len(spans) THEN 0
    ELSE Len(spans[i + 2].Text) + TailLen(spans, hs, i + 1)

\* C27: LayoutStdLR ends with every span of the text either left whole or cut
\* into pieces: a span is split at most len(Text) times, every split leaves a
\* head that is not empty and a tail that is not empty and shorter than what
\* was split, and the pass has gone through to the end of the span list
C27_WrapLoopBounded ==
    hpc = "laid" =>
        /\ Len(tr.Spans) = Len(lay.pre.Spans) + Cardinality(lay.heads)
        /\ \A j \in 1..Len(lay.pre.Spans) :
               Cardinality({i \in lay.heads : GroupOf(lay.heads, i) = j})
                   <= Len(lay.pre.Spans[j].Text)
        /\ \A i \in lay.heads :
               /\ i + 2 <= Len(tr.Spans)
               /\ Len(tr.Spans[i + 1].Text) > 0
               /\ TailLen(tr.Spans, lay.heads, i) > 0
               /\ TailLen(tr.Spans, lay.heads, i)
                      < Len(tr.Spans[i + 1].Text) + TailLen(tr.Spans, lay.heads, i)
               /\ Len(tr.Spans[i + 2].Text) > 0

\* a span was split and its tail was split again, and the pass ended behind
\* the second tail
C27_Witness ==
    /\ hpc = "laid"
    /\ \E i \in lay.heads :
        /\ i + 1 \in lay.heads
        /\ Len(tr.Spans) = i + 3

\* the runes that precede the position idx of the span sp (0-based), counted
\* across all spans
RECURSIVE RunesBefore(_, _, _)
RunesBefore(spans, sp, idx) ==
    IF sp <= 0 THEN idx
    ELSE Len(spans[sp].Text) + RunesBefore(spans, sp - 1, idx)

\* C29: LayoutStdLR does not move a link relative to the text: as many runes
\* precede the start of every link, and as many its end, after the layout as
\* before it
C29_LinksStayOnTheirText ==
    hpc = "laid" =>
        /\ Len(tr.Links) = Len(lay.pre.Links)
        /\ \A li \in 1..Len(tr.Links) :
               LET tl == tr.Links[li]
                   pl == lay.pre.Links[li]
               IN  /\ RunesBefore(tr.Spans, tl.StartSpan, tl.StartIdx)
                          = RunesBefore(lay.pre.Spans, pl.StartSpan, pl.StartIdx)
                   /\ RunesBefore(tr.Spans, tl.EndSpan, tl.EndIdx)
                          = RunesBefore(lay.pre.Spans, pl.EndSpan, pl.EndIdx)

\* C28: after KeyMap.Update the map has no entry whose function is Nil and
\* has a chord for every key function above Nil, whatever the map was, and
\* every entry that had a function other than Nil is as it was
C28_UpdateCompletes ==
    kmPre # <<>> =>
        /\ \A c \in DOMAIN km : km[c] # Nil
        /\ \A f \in (Nil + 1)..KeyFunsN : \E c \in DOMAIN km : km[c] = f
        /\ \A c \in DOMAIN kmPre[1] :
               kmPre[1][c] # Nil => c \in DOMAIN km /\ km[c] = kmPre[1][c]

====
